---- MODULE Spec2Model ----
(***************************************************************************)
(* Property model of rusticnotion: the PropertyValue tagged union, its    *)
(* serde wire format (src/src/models/properties.rs) and the typed-access  *)
(* (narrowing) layer built on FromPropertyValue.                          *)
(*                                                                         *)
(* In-memory values are modelled as follows:                               *)
(*   struct            a record of its fields                              *)
(*   enum variant      [variant |-> "Name", fields |-> record]             *)
(*   Option<T>         None / Some(x)                                      *)
(*   Vec<T>            a sequence                                          *)
(*   JSON              tagged records built by JNull .. JObj               *)
(***************************************************************************)
EXTENDS Integers, Sequences, FiniteSets, TLC

VARIABLES property, wire, origin, call, result, threads, request

vars == <<property, wire, origin, call, result, threads, request>>

(***************************************************************************)
(* Bounds of the model.                                                    *)
(***************************************************************************)
\* longest generated sequence payload (Vec<..>)
MaxLen == 2
\* number of distinct property ids / numeric payloads generated
MaxId == 2
\* number of threads that share one value
NumThreads == 2

(***************************************************************************)
(* Rust Option and Result.                                                 *)
(***************************************************************************)
None == [some |-> FALSE]
Some(x) == [some |-> TRUE, v |-> x]

Ok(x) == [ok |-> TRUE, v |-> x]
\* WrongPropertyTypeError { expected, actual }
WrongPropertyTypeError(expected, actual) ==
    [ok |-> FALSE, expected |-> expected, actual |-> actual]
\* serde_json::Error, carrying the reason only
DecodeError(why) == [ok |-> FALSE, error |-> why]

(***************************************************************************)
(* JSON values.                                                            *)
(***************************************************************************)
JNull == [t |-> "null"]
JBool(b) == [t |-> "bool", b |-> b]
JNum(n) == [t |-> "num", n |-> n]
JStr(s) == [t |-> "str", s |-> s]
JArr(s) == [t |-> "arr", a |-> s]
\* an object is a function from its keys to JSON values
JObj(f) == [t |-> "obj", o |-> f]
EmptyMap == [k \in {} |-> JNull]

HasKey(j, k) == j.t = "obj" /\ k \in DOMAIN j.o

(***************************************************************************)
(* serde's rename_all rules, applied character by character to the Rust   *)
(* identifier of a variant.                                                *)
(***************************************************************************)
UpperChars == {"A","B","C","D","E","F","G","H","I","J","K","L","M",
               "N","O","P","Q","R","S","T","U","V","W","X","Y","Z"}

to_ascii_lowercase(ch) ==
    CASE ch = "A" -> "a" [] ch = "B" -> "b" [] ch = "C" -> "c" [] ch = "D" -> "d"
      [] ch = "E" -> "e" [] ch = "F" -> "f" [] ch = "G" -> "g" [] ch = "H" -> "h"
      [] ch = "I" -> "i" [] ch = "J" -> "j" [] ch = "K" -> "k" [] ch = "L" -> "l"
      [] ch = "M" -> "m" [] ch = "N" -> "n" [] ch = "O" -> "o" [] ch = "P" -> "p"
      [] ch = "Q" -> "q" [] ch = "R" -> "r" [] ch = "S" -> "s" [] ch = "T" -> "t"
      [] ch = "U" -> "u" [] ch = "V" -> "v" [] ch = "W" -> "w" [] ch = "X" -> "x"
      [] ch = "Y" -> "y" [] ch = "Z" -> "z" [] OTHER -> ch

RECURSIVE SnakeFrom(_, _)
SnakeFrom(name, i) ==
    IF i > Len(name) THEN ""
    ELSE LET ch == SubSeq(name, i, i)
         IN  (IF i > 1 /\ ch \in UpperChars THEN "_" ELSE "")
               \o to_ascii_lowercase(ch) \o SnakeFrom(name, i + 1)

\* #[serde(rename_all = "snake_case")]
snake_case(name) == SnakeFrom(name, 1)

RECURSIVE LowerFrom(_, _)
LowerFrom(name, i) ==
    IF i > Len(name) THEN ""
    ELSE to_ascii_lowercase(SubSeq(name, i, i)) \o LowerFrom(name, i + 1)

\* #[serde(rename_all = "lowercase")]
lowercase(name) == LowerFrom(name, 1)

(***************************************************************************)
(* Type declarations.  A declaration is the data serde's derive sees:     *)
(* the fields of a struct with their attributes, the variants of an enum  *)
(* with the enum's tag key and renaming rule.                             *)
(***************************************************************************)
Prim(kind) == [k |-> kind]
Opt(ty) == [k |-> "option", of |-> ty]
Vec(ty) == [k |-> "vec", of |-> ty]
Named(n) == [k |-> "named", name |-> n]

Field(name, ty) == [name |-> name, ty |-> ty, skip_none |-> FALSE, flatten |-> FALSE]
\* #[serde(skip_serializing_if = "Option::is_none")]
SkipNone(name, ty) == [name |-> name, ty |-> ty, skip_none |-> TRUE, flatten |-> FALSE]
\* #[serde(flatten)]
Flatten(name, ty) == [name |-> name, ty |-> ty, skip_none |-> FALSE, flatten |-> TRUE]

Struct(fields) == [k |-> "struct", fields |-> fields]
\* #[serde(tag = ..., rename_all = ...)] enum of struct variants
TaggedEnum(tag, rule, variants) ==
    [k |-> "enum", tag |-> tag, rename_all |-> rule, variants |-> variants]
\* a variant; rename = "" when the variant has no #[serde(rename = ...)]
Variant(name, rename, fields) == [name |-> name, rename |-> rename, fields |-> fields]
\* #[serde(untagged)] enum of newtype variants
Untagged(variants) == [k |-> "untagged", variants |-> variants]
NewtypeVariant(name, ty) == [name |-> name, ty |-> ty]
\* enum of unit variants, written as a string
UnitEnum(rule, names) == [k |-> "unit_enum", rename_all |-> rule, names |-> names]
\* #[serde(transparent)] newtype
Transparent(ty) == [k |-> "transparent", of |-> ty]

String == Prim("string")
Bool == Prim("bool")
Number == Prim("number")
NaiveDate == Prim("date")
DateTimeUtc == Prim("datetime")

Color ==
    UnitEnum("lowercase", <<"Default", "Gray", "Brown", "Orange", "Yellow",
                            "Green", "Blue", "Purple", "Pink", "Red">>)

NumberFormat ==
    UnitEnum("snake_case", <<"Number", "NumberWithCommas", "Percent", "Dollar", "Euro",
                             "Pound", "Yen", "Ruble", "Rupee", "Won", "Yuan">>)

RollupFunction ==
    UnitEnum("snake_case",
        <<"Average", "Checked", "Count", "CountPerGroup", "CountValues", "DateRange",
          "EarliestDate", "Empty", "LatestDate", "Max", "Median", "Min", "NotEmpty",
          "PercentChecked", "PercentEmpty", "PercentNotEmpty", "PercentPerGroup",
          "PercentUnchecked", "Range", "ShowOriginal", "ShowUnique", "Sum",
          "Unchecked", "Unique">>)

SelectOption ==
    Struct(<<Field("name", String), Field("id", Named("SelectOptionId")),
             Field("color", Named("Color"))>>)

StatusGroupOption ==
    Struct(<<Field("name", String), Field("id", Named("SelectOptionId")),
             Field("color", Named("Color")),
             Field("option_ids", Vec(Named("SelectOptionId")))>>)

\* SelectedValue with id written even when it is None
SelectedValue_IdNotSkipped ==
    Struct(<<Field("id", Opt(Named("SelectOptionId"))),
             SkipNone("name", Opt(String)),
             Field("color", Named("Color"))>>)

SelectedValue ==
    Struct(<<SkipNone("id", Opt(Named("SelectOptionId"))),
             SkipNone("name", Opt(String)),
             Field("color", Named("Color"))>>)

DateOrDateTime ==
    Untagged(<<NewtypeVariant("Date", NaiveDate), NewtypeVariant("DateTime", DateTimeUtc)>>)

DateValue ==
    Struct(<<Field("start", Named("DateOrDateTime")),
             Field("end", Opt(Named("DateOrDateTime"))),
             Field("time_zone", Opt(String))>>)

\* FormulaResultValue without its rename_all attribute
FormulaResultValue_NoRenameAll ==
    TaggedEnum("type", "",
        <<Variant("String", "", <<Field("string", Opt(String))>>),
          Variant("Number", "", <<Field("number", Opt(Number))>>),
          Variant("Boolean", "", <<Field("boolean", Opt(Bool))>>),
          Variant("Date", "", <<Field("date", Opt(Named("DateValue")))>>)>>)

FormulaResultValue ==
    TaggedEnum("type", "snake_case",
        <<Variant("String", "", <<Field("string", Opt(String))>>),
          Variant("Number", "", <<Field("number", Opt(Number))>>),
          Variant("Boolean", "", <<Field("boolean", Opt(Bool))>>),
          Variant("Date", "", <<Field("date", Opt(Named("DateValue")))>>)>>)

RelationValue == Struct(<<Field("id", Named("PageId"))>>)

\* RollupValue without its rename_all attribute
RollupValue_NoRenameAll ==
    TaggedEnum("type", "",
        <<Variant("Number", "", <<Field("number", Opt(Number))>>),
          Variant("Date", "", <<Field("date", Opt(DateTimeUtc))>>),
          Variant("Array", "", <<Field("array", Vec(Named("RollupPropertyValue")))>>)>>)

RollupValue ==
    TaggedEnum("type", "snake_case",
        <<Variant("Number", "", <<Field("number", Opt(Number))>>),
          Variant("Date", "", <<Field("date", Opt(DateTimeUtc))>>),
          Variant("Array", "", <<Field("array", Vec(Named("RollupPropertyValue")))>>)>>)

External == Struct(<<Field("url", String)>>)
File == Struct(<<Field("url", String), Field("expiry_time", String)>>)

FileReference ==
    TaggedEnum("type", "snake_case",
        <<Variant("External", "", <<Field("name", String), Field("external", Named("External"))>>),
          Variant("File", "", <<Field("name", String), Field("file", Named("File"))>>)>>)

UserCommon ==
    Struct(<<Field("id", Named("UserId")), Field("name", Opt(String)),
             Field("avatar_url", Opt(String))>>)
Person == Struct(<<Field("email", Opt(String))>>)
Bot == Struct(<<Field("email", Opt(String))>>)

User ==
    TaggedEnum("object", "snake_case",
        <<Variant("Person", "", <<Flatten("common", Named("UserCommon")),
                                  Field("person", Named("Person"))>>),
          Variant("Bot", "", <<Flatten("common", Named("UserCommon")),
                               Field("bot", Named("Bot"))>>),
          Variant("User", "", <<Flatten("common", Named("UserCommon")),
                                Field("person", Opt(Named("Person")))>>)>>)

\* a rich text span, reduced to its plain text
RichText == Struct(<<Field("plain_text", String)>>)

PropertyConfiguration ==
    TaggedEnum("type", "snake_case",
        <<Variant("Title", "", <<Field("id", Named("PropertyId"))>>),
          Variant("Text", "rich_text", <<Field("id", Named("PropertyId"))>>),
          Variant("Number", "", <<Field("id", Named("PropertyId")),
                                  Field("number", Named("NumberDetails"))>>),
          Variant("Select", "", <<Field("id", Named("PropertyId")),
                                  Field("select", Named("Select"))>>),
          Variant("Status", "", <<Field("id", Named("PropertyId")),
                                  Field("status", Named("Status"))>>),
          Variant("MultiSelect", "", <<Field("id", Named("PropertyId")),
                                       Field("multi_select", Named("Select"))>>),
          Variant("Date", "", <<Field("id", Named("PropertyId"))>>),
          Variant("People", "", <<Field("id", Named("PropertyId"))>>),
          Variant("Files", "", <<Field("id", Named("PropertyId"))>>),
          Variant("Checkbox", "", <<Field("id", Named("PropertyId"))>>),
          Variant("Url", "", <<Field("id", Named("PropertyId"))>>),
          Variant("Email", "", <<Field("id", Named("PropertyId"))>>),
          Variant("PhoneNumber", "", <<Field("id", Named("PropertyId"))>>),
          Variant("Formula", "", <<Field("id", Named("PropertyId")),
                                   Field("formula", Named("Formula"))>>),
          Variant("Relation", "", <<Field("id", Named("PropertyId")),
                                    Field("relation", Named("Relation"))>>),
          Variant("Rollup", "", <<Field("id", Named("PropertyId")),
                                  Field("rollup", Named("Rollup"))>>),
          Variant("CreatedTime", "", <<Field("id", Named("PropertyId"))>>),
          Variant("CreatedBy", "", <<Field("id", Named("PropertyId"))>>),
          Variant("LastEditedTime", "", <<Field("id", Named("PropertyId"))>>),
          Variant("LastEditBy", "", <<Field("id", Named("PropertyId"))>>),
          Variant("Button", "", <<Field("id", Named("PropertyId"))>>)>>)

\* the variants of PropertyValue, in declaration order
PropertyValueVariants ==
    <<Variant("Title", "", <<Field("id", Named("PropertyId")),
                             Field("title", Vec(Named("RichText")))>>),
      Variant("Text", "rich_text", <<Field("id", Named("PropertyId")),
                                     Field("rich_text", Vec(Named("RichText")))>>),
      Variant("Number", "", <<Field("id", Named("PropertyId")),
                              Field("number", Opt(Number))>>),
      Variant("Select", "", <<Field("id", Named("PropertyId")),
                              Field("select", Opt(Named("SelectedValue")))>>),
      Variant("Status", "", <<Field("id", Named("PropertyId")),
                              Field("status", Opt(Named("SelectedValue")))>>),
      Variant("MultiSelect", "", <<Field("id", Named("PropertyId")),
                                   Field("multi_select", Opt(Vec(Named("SelectedValue"))))>>),
      Variant("Date", "", <<Field("id", Named("PropertyId")),
                            Field("date", Opt(Named("DateValue")))>>),
      Variant("Formula", "", <<Field("id", Named("PropertyId")),
                               Field("formula", Named("FormulaResultValue"))>>),
      Variant("Relation", "", <<Field("id", Named("PropertyId")),
                                Field("relation", Opt(Vec(Named("RelationValue"))))>>),
      Variant("Rollup", "", <<Field("id", Named("PropertyId")),
                              Field("rollup", Opt(Named("RollupValue")))>>),
      Variant("People", "", <<Field("id", Named("PropertyId")),
                              Field("people", Vec(Named("User")))>>),
      Variant("Files", "", <<Field("id", Named("PropertyId")),
                             Field("files", Opt(Vec(Named("FileReference"))))>>),
      Variant("Checkbox", "", <<Field("id", Named("PropertyId")),
                                Field("checkbox", Bool)>>),
      Variant("Url", "", <<Field("id", Named("PropertyId")),
                           Field("url", Opt(String))>>),
      Variant("Email", "", <<Field("id", Named("PropertyId")),
                             Field("email", Opt(String))>>),
      Variant("PhoneNumber", "", <<Field("id", Named("PropertyId")),
                                   Field("phone_number", Opt(String))>>),
      Variant("CreatedTime", "", <<Field("id", Named("PropertyId")),
                                   Field("created_time", DateTimeUtc)>>),
      Variant("CreatedBy", "", <<Field("id", Named("PropertyId")),
                                 Field("created_by", Named("User"))>>),
      Variant("LastEditedTime", "", <<Field("id", Named("PropertyId")),
                                      Field("last_edited_time", DateTimeUtc)>>),
      Variant("LastEditedBy", "", <<Field("id", Named("PropertyId")),
                                    Field("last_edited_by", Named("User"))>>),
      Variant("Button", "", <<Field("id", Named("PropertyId"))>>)>>

\* PropertyValue with the rename of Text left out
PropertyValue_TextNotRenamed ==
    TaggedEnum("type", "snake_case", [PropertyValueVariants EXCEPT ![2].rename = ""])

\* PropertyValue with the rename of Text repeated on Title
PropertyValue_TitleTaggedRichText ==
    TaggedEnum("type", "snake_case", [PropertyValueVariants EXCEPT ![1].rename = "rich_text"])

\* PropertyValue with Status renamed to the tag of Select
PropertyValue_StatusTaggedSelect ==
    TaggedEnum("type", "snake_case", [PropertyValueVariants EXCEPT ![5].rename = "select"])

\* PropertyValue without its rename_all attribute
PropertyValue_NoRenameAll == TaggedEnum("type", "", PropertyValueVariants)

\* PropertyValue with the payload of Checkbox declared Option<bool>
PropertyValue_CheckboxOptional ==
    TaggedEnum("type", "snake_case",
               [PropertyValueVariants EXCEPT ![13].fields[2].ty = Opt(Bool)])

PropertyValue == TaggedEnum("type", "snake_case", PropertyValueVariants)

RollupPropertyValue ==
    TaggedEnum("type", "snake_case",
        <<Variant("Text", "rich_text", <<Field("rich_text", Vec(Named("RichText")))>>),
          Variant("Number", "", <<Field("number", Opt(Number))>>),
          Variant("Select", "", <<Field("select", Opt(Named("SelectedValue")))>>),
          Variant("Status", "", <<Field("status", Opt(Named("SelectedValue")))>>),
          Variant("MultiSelect", "", <<Field("multi_select", Opt(Vec(Named("SelectedValue"))))>>),
          Variant("Date", "", <<Field("date", Opt(Named("DateValue")))>>),
          Variant("Formula", "", <<Field("formula", Named("FormulaResultValue"))>>),
          Variant("Relation", "", <<Field("relation", Opt(Vec(Named("RelationValue"))))>>),
          Variant("Rollup", "", <<Field("rollup", Opt(Named("RollupValue")))>>),
          Variant("People", "", <<Field("people", Vec(Named("User")))>>),
          Variant("Files", "", <<Field("files", Opt(Vec(Named("FileReference"))))>>),
          Variant("Checkbox", "", <<Field("checkbox", Bool)>>),
          Variant("Url", "", <<Field("url", Opt(String))>>),
          Variant("Email", "", <<Field("email", Opt(String))>>),
          Variant("PhoneNumber", "", <<Field("phone_number", String)>>),
          Variant("CreatedTime", "", <<Field("created_time", DateTimeUtc)>>),
          Variant("CreatedBy", "", <<Field("created_by", Named("User"))>>),
          Variant("LastEditedTime", "", <<Field("last_edited_time", DateTimeUtc)>>),
          Variant("LastEditedBy", "", <<Field("last_edited_by", Named("User"))>>)>>)

NumberDetails == Struct(<<Field("format", Named("NumberFormat"))>>)
Select == Struct(<<Field("options", Vec(Named("SelectOption")))>>)
Status ==
    Struct(<<Field("options", Vec(Named("SelectOption"))),
             Field("groups", Vec(Named("StatusGroupOption")))>>)
Formula == Struct(<<Field("expression", String)>>)
Relation ==
    Struct(<<Field("database_id", Named("DatabaseId")),
             Field("synced_property_name", Opt(String)),
             Field("synced_property_id", Opt(Named("PropertyId")))>>)
Rollup ==
    Struct(<<Field("relation_property_name", String),
             Field("relation_property_id", Named("PropertyId")),
             Field("rollup_property_name", String),
             Field("rollup_property_id", String),
             Field("function", Named("RollupFunction"))>>)

\* the identifier newtypes: opaque strings on the wire
SelectOptionId == Transparent(String)
IdNewtype == Transparent(String)

\* the body of an API error: the fields Error::ApiError displays
ErrorResponse ==
    Struct(<<Field("status", Number), Field("code", String), Field("message", String)>>)

\* the response envelope and what it wraps, reduced to the identifier
Database == Struct(<<Field("id", Named("DatabaseId"))>>)
Page == Struct(<<Field("id", Named("PageId"))>>)
Block == Struct(<<Field("id", Named("BlockId"))>>)
ListResponseOfObject ==
    Struct(<<Field("results", Vec(Named("Object"))), Field("next_cursor", Opt(String)),
             Field("has_more", Bool)>>)
Object ==
    TaggedEnum("object", "snake_case",
        <<Variant("Block", "", <<Flatten("block", Named("Block"))>>),
          Variant("Database", "", <<Flatten("database", Named("Database"))>>),
          Variant("Page", "", <<Flatten("page", Named("Page"))>>),
          Variant("List", "", <<Flatten("list", Named("ListResponse<Object>"))>>),
          Variant("Error", "", <<Flatten("error", Named("ErrorResponse"))>>)>>)

Parent == Struct(<<Field("type", String)>>)
CommentCommon ==
    Struct(<<Field("id", Named("CommentId")), Field("rich_text", Vec(Named("RichText"))),
             Field("created_time", DateTimeUtc), Field("last_edited_time", DateTimeUtc),
             Field("parent", Named("Parent")), Field("created_by", Named("User")),
             Field("discussion_id", String)>>)
Comment ==
    TaggedEnum("object", "snake_case",
        <<Variant("Comment", "", <<Flatten("common", Named("CommentCommon"))>>)>>)
ListResponseOfComment ==
    Struct(<<Field("results", Vec(Named("Comment"))), Field("next_cursor", Opt(String)),
             Field("has_more", Bool)>>)

TypeDef(n) ==
    CASE n = "PropertyValue" -> PropertyValue
      [] n = "Object" -> Object
      [] n = "ErrorResponse" -> ErrorResponse
      [] n = "Database" -> Database
      [] n = "Page" -> Page
      [] n = "Block" -> Block
      [] n = "ListResponse<Object>" -> ListResponseOfObject
      [] n = "ListResponse<Comment>" -> ListResponseOfComment
      [] n = "Comment" -> Comment
      [] n = "CommentCommon" -> CommentCommon
      [] n = "Parent" -> Parent
      [] n = "PropertyConfiguration" -> PropertyConfiguration
      [] n = "RollupPropertyValue" -> RollupPropertyValue
      [] n = "RollupValue" -> RollupValue
      [] n = "FormulaResultValue" -> FormulaResultValue
      [] n = "FileReference" -> FileReference
      [] n = "External" -> External
      [] n = "File" -> File
      [] n = "SelectedValue" -> SelectedValue
      [] n = "DateValue" -> DateValue
      [] n = "DateOrDateTime" -> DateOrDateTime
      [] n = "RelationValue" -> RelationValue
      [] n = "User" -> User
      [] n = "UserCommon" -> UserCommon
      [] n = "Person" -> Person
      [] n = "Bot" -> Bot
      [] n = "RichText" -> RichText
      [] n = "Color" -> Color
      [] n = "NumberFormat" -> NumberFormat
      [] n = "RollupFunction" -> RollupFunction
      [] n = "NumberDetails" -> NumberDetails
      [] n = "Select" -> Select
      [] n = "Status" -> Status
      [] n = "SelectOption" -> SelectOption
      [] n = "StatusGroupOption" -> StatusGroupOption
      [] n = "Formula" -> Formula
      [] n = "Relation" -> Relation
      [] n = "Rollup" -> Rollup
      [] n = "SelectOptionId" -> SelectOptionId
      [] n \in {"PropertyId", "PageId", "DatabaseId", "UserId", "BlockId", "CommentId"} -> IdNewtype

(***************************************************************************)
(* chrono's text forms.  NaiveDate is [year, month, day]; DateTime<Utc> is *)
(* [date, hour, minute, second].  A NaiveDate is written %Y-%m-%d, a       *)
(* DateTime<Utc> as the RFC 3339 timestamp with the Z suffix.              *)
(***************************************************************************)
Digit(n) == SubSeq("0123456789", n + 1, n + 1)
IsDigit(ch) == \E n \in 0..9 : Digit(n) = ch
DigitVal(ch) == CHOOSE n \in 0..9 : Digit(n) = ch
Pad2(n) == Digit(n \div 10) \o Digit(n % 10)
Pad4(n) == Pad2(n \div 100) \o Pad2(n % 100)
CharAt(s, i) == SubSeq(s, i, i)
AllDigits(s, from, to) == \A i \in from..to : IsDigit(CharAt(s, i))
Num2(s, i) == 10 * DigitVal(CharAt(s, i)) + DigitVal(CharAt(s, i + 1))

FormatNaiveDate(d) == Pad4(d.year) \o "-" \o Pad2(d.month) \o "-" \o Pad2(d.day)

\* a timestamp writer that drops the time of day at midnight
FormatDateTime_DateOnlyAtMidnight(t) ==
    IF t.hour = 0 /\ t.minute = 0 /\ t.second = 0 THEN FormatNaiveDate(t.date)
    ELSE FormatNaiveDate(t.date) \o "T" \o Pad2(t.hour) \o ":" \o Pad2(t.minute)
            \o ":" \o Pad2(t.second) \o "Z"

FormatDateTime(t) ==
    FormatNaiveDate(t.date) \o "T" \o Pad2(t.hour) \o ":" \o Pad2(t.minute)
        \o ":" \o Pad2(t.second) \o "Z"

\* the date part of a text, when positions 1..10 hold YYYY-MM-DD
DatePartOk(s) ==
    /\ Len(s) >= 10
    /\ AllDigits(s, 1, 4) /\ CharAt(s, 5) = "-"
    /\ AllDigits(s, 6, 7) /\ CharAt(s, 8) = "-"
    /\ AllDigits(s, 9, 10)
    /\ Num2(s, 6) \in 1..12
    /\ Num2(s, 9) \in 1..31
DatePart(s) ==
    [year |-> 100 * Num2(s, 1) + Num2(s, 3), month |-> Num2(s, 6), day |-> Num2(s, 9)]

\* NaiveDate::from_str: the whole text must be a date, trailing input is an error
\* a NaiveDate parser that takes the date of a full timestamp only
ParseNaiveDate_RequiresTime(s) ==
    IF Len(s) = 20 /\ DatePartOk(s) THEN Ok(DatePart(s)) ELSE DecodeError("invalid date")

ParseNaiveDate(s) ==
    IF DatePartOk(s) /\ Len(s) = 10 THEN Ok(DatePart(s))
    ELSE DecodeError("invalid date")

\* DateTime<Utc>::deserialize: a full timestamp is required
ParseDateTime(s) ==
    IF /\ DatePartOk(s) /\ Len(s) = 20
       /\ CharAt(s, 11) = "T"
       /\ AllDigits(s, 12, 13) /\ CharAt(s, 14) = ":"
       /\ AllDigits(s, 15, 16) /\ CharAt(s, 17) = ":"
       /\ AllDigits(s, 18, 19) /\ CharAt(s, 20) = "Z"
       /\ Num2(s, 12) \in 0..23 /\ Num2(s, 15) \in 0..59 /\ Num2(s, 18) \in 0..59
    THEN Ok([date |-> DatePart(s), hour |-> Num2(s, 12),
             minute |-> Num2(s, 15), second |-> Num2(s, 18)])
    ELSE DecodeError("invalid timestamp")

(***************************************************************************)
(* Serialize: what serde's derived Serialize writes for a declaration.    *)
(***************************************************************************)
ApplyRule(rule, name) ==
    CASE rule = "snake_case" -> snake_case(name)
      [] rule = "lowercase" -> lowercase(name)
      [] OTHER -> name

\* the wire name of a variant: its own rename, else the enum's rename_all
VariantTag(def, v) ==
    IF v.rename # "" THEN v.rename ELSE ApplyRule(def.rename_all, v.name)

VariantNamed(def, name) ==
    def.variants[CHOOSE i \in 1..Len(def.variants) : def.variants[i].name = name]

RECURSIVE ToJson(_, _), ToJsonDef(_, _), EncodeFields(_, _)

EncodeFields(fields, rec) ==
    IF Len(fields) = 0 THEN EmptyMap
    ELSE LET f == Head(fields)
             rest == EncodeFields(Tail(fields), rec)
         IN  IF f.flatten THEN ToJson(f.ty, rec[f.name]).o @@ rest
             ELSE IF f.skip_none /\ ~rec[f.name].some THEN rest
             ELSE (f.name :> ToJson(f.ty, rec[f.name])) @@ rest

ToJsonDef(def, x) ==
    CASE def.k = "struct" -> JObj(EncodeFields(def.fields, x))
      [] def.k = "enum" ->
            LET v == VariantNamed(def, x.variant)
            IN  JObj((def.tag :> JStr(VariantTag(def, v))) @@ EncodeFields(v.fields, x.fields))
      [] def.k = "untagged" -> ToJson(VariantNamed(def, x.variant).ty, x.v)
      [] def.k = "unit_enum" -> JStr(ApplyRule(def.rename_all, x))
      [] def.k = "transparent" -> ToJson(def.of, x)

ToJson(ty, x) ==
    CASE ty.k = "string" -> JStr(x)
      [] ty.k = "bool" -> JBool(x)
      [] ty.k = "number" -> JNum(x)
      [] ty.k = "date" -> JStr(FormatNaiveDate(x))
      [] ty.k = "datetime" -> JStr(FormatDateTime(x))
      [] ty.k = "option" -> IF x.some THEN ToJson(ty.of, x.v) ELSE JNull
      [] ty.k = "vec" -> JArr([i \in 1..Len(x) |-> ToJson(ty.of, x[i])])
      [] ty.k = "named" -> ToJsonDef(TypeDef(ty.name), x)

(***************************************************************************)
(* Deserialize: what serde's derived Deserialize accepts.                 *)
(***************************************************************************)
HasFlatten(fields) == \E i \in 1..Len(fields) : fields[i].flatten
Without(map, key) == [k \in DOMAIN map \ {key} |-> map[k]]
MinOf(S) == CHOOSE i \in S : \A j \in S : i <= j

RECURSIVE FromJson(_, _), FromJsonDef(_, _), DecodeSeq(_, _), DecodeFields(_, _),
          DecodeFieldsSeq(_, _), DecodeUntagged(_, _)

\* a sequence reader that leaves out the elements that do not decode
DecodeSeq_SkipsFailed(ty, s) ==
    LET Decodes(j) == FromJson(ty, j).ok
        kept == SelectSeq(s, Decodes)
    IN  Ok([k \in 1..Len(kept) |-> FromJson(ty, kept[k]).v])

\* Vec<T>: the elements in order, the first error ends the decode
DecodeSeq(ty, s) ==
    IF Len(s) = 0 THEN Ok(<<>>)
    ELSE LET h == FromJson(ty, Head(s))
         IN  IF ~h.ok THEN h
             ELSE LET t == DecodeSeq(ty, Tail(s))
                  IN  IF ~t.ok THEN t ELSE Ok(<<h.v>> \o t.v)

\* a struct read from a JSON object: unknown keys are ignored, a missing
\* Option field is None, any other missing field is an error
DecodeFields(fields, map) ==
    IF Len(fields) = 0 THEN Ok(<<>>)
    ELSE LET f == Head(fields)
             h == IF f.flatten THEN FromJson(f.ty, JObj(map))
                  ELSE IF f.name \in DOMAIN map THEN FromJson(f.ty, map[f.name])
                  ELSE IF f.ty.k = "option" THEN Ok(None)
                  ELSE DecodeError("missing field")
         IN  IF ~h.ok THEN h
             ELSE LET t == DecodeFields(Tail(fields), map)
                  IN  IF ~t.ok THEN t ELSE Ok((f.name :> h.v) @@ t.v)

\* a struct read from a JSON array: the fields by position
DecodeFieldsSeq(fields, s) ==
    IF Len(fields) = 0
    THEN IF Len(s) = 0 THEN Ok(<<>>) ELSE DecodeError("invalid length")
    ELSE IF Len(s) = 0 THEN DecodeError("invalid length")
    ELSE LET f == Head(fields)
             h == FromJson(f.ty, Head(s))
         IN  IF ~h.ok THEN h
             ELSE LET t == DecodeFieldsSeq(Tail(fields), Tail(s))
                  IN  IF ~t.ok THEN t ELSE Ok((f.name :> h.v) @@ t.v)

\* an untagged enum: the first variant that accepts the input wins
DecodeUntagged(variants, j) ==
    IF Len(variants) = 0 THEN DecodeError("data did not match any variant")
    ELSE LET h == FromJson(Head(variants).ty, j)
         IN  IF h.ok THEN Ok([variant |-> Head(variants).name, v |-> h.v])
             ELSE DecodeUntagged(Tail(variants), j)

\* the selection by tag with a catch-all last variant (#[serde(other)])
VariantOfTag_Other(def, tag) ==
    LET hits == {i \in 1..Len(def.variants) : VariantTag(def, def.variants[i]) = tag}
    IN  IF hits = {} THEN Len(def.variants) ELSE MinOf(hits)

\* the variant selected by a tag text; 0 when no variant has that wire name
VariantOfTag(def, tag) ==
    LET hits == {i \in 1..Len(def.variants) : VariantTag(def, def.variants[i]) = tag}
    IN  IF hits = {} THEN 0 ELSE MinOf(hits)

FromJsonDef(def, j) ==
    CASE def.k = "struct" ->
            IF j.t = "obj" THEN DecodeFields(def.fields, j.o)
            ELSE IF j.t = "arr" /\ ~HasFlatten(def.fields) THEN DecodeFieldsSeq(def.fields, j.a)
            ELSE DecodeError("invalid type")
      [] def.k = "enum" ->
            IF j.t = "obj"
            THEN IF def.tag \notin DOMAIN j.o THEN DecodeError("missing tag")
                 ELSE IF j.o[def.tag].t # "str" THEN DecodeError("invalid tag")
                 ELSE LET i == VariantOfTag(def, j.o[def.tag].s)
                      IN  IF i = 0 THEN DecodeError("unknown variant")
                          ELSE LET r == DecodeFields(def.variants[i].fields, Without(j.o, def.tag))
                               IN  IF r.ok THEN Ok([variant |-> def.variants[i].name, fields |-> r.v])
                                   ELSE r
            ELSE IF j.t = "arr"
            THEN IF Len(j.a) = 0 THEN DecodeError("missing tag")
                 ELSE IF Head(j.a).t # "str" THEN DecodeError("invalid tag")
                 ELSE LET i == VariantOfTag(def, Head(j.a).s)
                      IN  IF i = 0 THEN DecodeError("unknown variant")
                          ELSE IF HasFlatten(def.variants[i].fields) THEN DecodeError("invalid type")
                          ELSE LET r == DecodeFieldsSeq(def.variants[i].fields, Tail(j.a))
                               IN  IF r.ok THEN Ok([variant |-> def.variants[i].name, fields |-> r.v])
                                   ELSE r
            ELSE DecodeError("invalid type")
      [] def.k = "untagged" -> DecodeUntagged(def.variants, j)
      [] def.k = "unit_enum" ->
            IF j.t = "str" /\ \E i \in 1..Len(def.names) : ApplyRule(def.rename_all, def.names[i]) = j.s
            THEN Ok(def.names[CHOOSE i \in 1..Len(def.names) :
                                ApplyRule(def.rename_all, def.names[i]) = j.s])
            ELSE DecodeError("unknown variant")
      [] def.k = "transparent" -> FromJson(def.of, j)

FromJson(ty, j) ==
    CASE ty.k = "string" -> IF j.t = "str" THEN Ok(j.s) ELSE DecodeError("invalid type")
      [] ty.k = "bool" -> IF j.t = "bool" THEN Ok(j.b) ELSE DecodeError("invalid type")
      [] ty.k = "number" -> IF j.t = "num" THEN Ok(j.n) ELSE DecodeError("invalid type")
      [] ty.k = "date" -> IF j.t = "str" THEN ParseNaiveDate(j.s) ELSE DecodeError("invalid type")
      [] ty.k = "datetime" -> IF j.t = "str" THEN ParseDateTime(j.s) ELSE DecodeError("invalid type")
      [] ty.k = "option" ->
            IF j.t = "null" THEN Ok(None)
            ELSE LET r == FromJson(ty.of, j) IN IF r.ok THEN Ok(Some(r.v)) ELSE r
      [] ty.k = "vec" -> IF j.t = "arr" THEN DecodeSeq(ty.of, j.a) ELSE DecodeError("invalid type")
      [] ty.k = "named" -> FromJsonDef(TypeDef(ty.name), j)

(***************************************************************************)
(* PropertyValue accessors.                                                *)
(***************************************************************************)
\* PropertyConfiguration::id with the arm of Button left without an id
PropertyConfiguration_id_ButtonHasNone(self) ==
    IF self.variant = "Button" THEN "" ELSE self.fields.id

\* PropertyConfiguration::id
PropertyConfiguration_id(self) ==
    CASE self.variant = "Title" -> self.fields.id
      [] self.variant = "Text" -> self.fields.id
      [] self.variant = "Number" -> self.fields.id
      [] self.variant = "Select" -> self.fields.id
      [] self.variant = "Status" -> self.fields.id
      [] self.variant = "MultiSelect" -> self.fields.id
      [] self.variant = "Date" -> self.fields.id
      [] self.variant = "People" -> self.fields.id
      [] self.variant = "Files" -> self.fields.id
      [] self.variant = "Checkbox" -> self.fields.id
      [] self.variant = "Url" -> self.fields.id
      [] self.variant = "Email" -> self.fields.id
      [] self.variant = "PhoneNumber" -> self.fields.id
      [] self.variant = "Formula" -> self.fields.id
      [] self.variant = "Relation" -> self.fields.id
      [] self.variant = "Rollup" -> self.fields.id
      [] self.variant = "CreatedTime" -> self.fields.id
      [] self.variant = "CreatedBy" -> self.fields.id
      [] self.variant = "LastEditedTime" -> self.fields.id
      [] self.variant = "LastEditBy" -> self.fields.id
      [] self.variant = "Button" -> self.fields.id

\* PropertyValue::id
id(self) == self.fields.id

\* PropertyValue::type_name
type_name(self) ==
    CASE self.variant = "Title" -> "Title"
      [] self.variant = "Text" -> "Text"
      [] self.variant = "Number" -> "Number"
      [] self.variant = "Select" -> "Select"
      [] self.variant = "Status" -> "Status"
      [] self.variant = "MultiSelect" -> "MultiSelect"
      [] self.variant = "Date" -> "Date"
      [] self.variant = "People" -> "People"
      [] self.variant = "Files" -> "Files"
      [] self.variant = "Checkbox" -> "Checkbox"
      [] self.variant = "Url" -> "Url"
      [] self.variant = "Email" -> "Email"
      [] self.variant = "PhoneNumber" -> "PhoneNumber"
      [] self.variant = "Formula" -> "Formula"
      [] self.variant = "Relation" -> "Relation"
      [] self.variant = "Rollup" -> "Rollup"
      [] self.variant = "CreatedTime" -> "CreatedTime"
      [] self.variant = "CreatedBy" -> "CreatedBy"
      [] self.variant = "LastEditedTime" -> "LastEditedTime"
      [] self.variant = "LastEditedBy" -> "LastEditedBy"
      [] self.variant = "Button" -> "Button"

(***************************************************************************)
(* The FromPropertyValue implementations, one operator per impl.          *)
(***************************************************************************)
\* impl FromPropertyValue for Vec<RichText>
FromVecRichText(value) ==
    CASE value.variant = "Title" -> Ok(value.fields.title)
      [] value.variant = "Text" -> Ok(value.fields.rich_text)
      [] OTHER -> WrongPropertyTypeError(<<"Title", "Text">>, type_name(value))

\* impl FromPropertyValue for Option<Number>
FromOptionNumber(value) ==
    CASE value.variant = "Number" -> Ok(value.fields.number)
      [] OTHER -> WrongPropertyTypeError(<<"Number">>, type_name(value))

\* the impl with the expected list of its documentation
FromOptionSelectedValue_DocExpected(value) ==
    CASE value.variant = "Select" -> Ok(value.fields.select)
      [] value.variant = "Status" -> Ok(value.fields.status)
      [] OTHER -> WrongPropertyTypeError(<<"Select", "Status", "MultiSelect">>, type_name(value))

\* impl FromPropertyValue for Option<SelectedValue>
FromOptionSelectedValue(value) ==
    CASE value.variant = "Select" -> Ok(value.fields.select)
      [] value.variant = "Status" -> Ok(value.fields.status)
      [] OTHER -> WrongPropertyTypeError(<<"Select", "Status">>, type_name(value))

\* impl FromPropertyValue for Option<Vec<SelectedValue>>
FromOptionVecSelectedValue(value) ==
    CASE value.variant = "MultiSelect" -> Ok(value.fields.multi_select)
      [] OTHER -> WrongPropertyTypeError(<<"MultiSelect">>, type_name(value))

\* impl FromPropertyValue for Option<DateValue>
FromOptionDateValue(value) ==
    CASE value.variant = "Date" -> Ok(value.fields.date)
      [] OTHER -> WrongPropertyTypeError(<<"Date">>, type_name(value))

\* impl FromPropertyValue for FormulaResultValue
FromFormulaResultValue(value) ==
    CASE value.variant = "Formula" -> Ok(value.fields.formula)
      [] OTHER -> WrongPropertyTypeError(<<"Formula">>, type_name(value))

\* impl FromPropertyValue for Option<Vec<RelationValue>>
FromOptionVecRelationValue(value) ==
    CASE value.variant = "Relation" -> Ok(value.fields.relation)
      [] OTHER -> WrongPropertyTypeError(<<"Relation">>, type_name(value))

\* impl FromPropertyValue for Option<Vec<FileReference>>
FromOptionVecFileReference(value) ==
    CASE value.variant = "Files" -> Ok(value.fields.files)
      [] OTHER -> WrongPropertyTypeError(<<"Files">>, type_name(value))

\* impl FromPropertyValue for bool
FromBool(value) ==
    CASE value.variant = "Checkbox" -> Ok(value.fields.checkbox)
      [] OTHER -> WrongPropertyTypeError(<<"Checkbox">>, type_name(value))

\* the impl with the PhoneNumber arm left out
FromOptionString_NoPhoneNumber(value) ==
    CASE value.variant = "Url" -> Ok(value.fields.url)
      [] value.variant = "Email" -> Ok(value.fields.email)
      [] OTHER -> WrongPropertyTypeError(<<"Url", "Email", "PhoneNumber">>, type_name(value))

\* impl FromPropertyValue for Option<String>
FromOptionString(value) ==
    CASE value.variant = "Url" -> Ok(value.fields.url)
      [] value.variant = "Email" -> Ok(value.fields.email)
      [] value.variant = "PhoneNumber" -> Ok(value.fields.phone_number)
      [] OTHER -> WrongPropertyTypeError(<<"Url", "Email", "PhoneNumber">>, type_name(value))

\* impl FromPropertyValue for DateTime<Utc>
FromDateTimeUtc(value) ==
    CASE value.variant = "CreatedTime" -> Ok(value.fields.created_time)
      [] value.variant = "LastEditedTime" -> Ok(value.fields.last_edited_time)
      [] OTHER -> WrongPropertyTypeError(<<"CreatedTime", "LastEditedTime">>, type_name(value))

\* impl FromPropertyValue for User
FromUser(value) ==
    CASE value.variant = "CreatedBy" -> Ok(value.fields.created_by)
      [] value.variant = "LastEditedBy" -> Ok(value.fields.last_edited_by)
      [] OTHER -> WrongPropertyTypeError(<<"CreatedBy", "LastEditedBy">>, type_name(value))

\* the impl with an empty people list reported as absent
FromOptionVecUser_EmptyIsNone(value) ==
    CASE value.variant = "People" ->
            IF Len(value.fields.people) = 0 THEN Ok(None) ELSE Ok(Some(value.fields.people))
      [] OTHER -> WrongPropertyTypeError(<<"People">>, type_name(value))

\* impl FromPropertyValue for Option<Vec<User>>
FromOptionVecUser(value) ==
    CASE value.variant = "People" -> Ok(Some(value.fields.people))
      [] OTHER -> WrongPropertyTypeError(<<"People">>, type_name(value))

\* impl FromPropertyValue for Option<RollupValue>
FromOptionRollupValue(value) ==
    CASE value.variant = "Rollup" -> Ok(value.fields.rollup)
      [] OTHER -> WrongPropertyTypeError(<<"Rollup">>, type_name(value))

\* the built-in narrowing targets
Targets ==
    {"Vec<RichText>",
     "Option<Number>",
     "Option<SelectedValue>",
     "Option<Vec<SelectedValue>>",
     "Option<DateValue>",
     "FormulaResultValue",
     "Option<Vec<RelationValue>>",
     "Option<Vec<FileReference>>",
     "bool",
     "Option<String>",
     "DateTime<Utc>",
     "User",
     "Option<Vec<User>>",
     "Option<RollupValue>"}

\* the targets defined by calling code
CallerTargets == {"TextValue"}

\* a type without an impl of FromPropertyValue: T::from_property_value does
\* not exist and the call has no result
NoImpl == [ok |-> FALSE, error |-> "the trait FromPropertyValue is not implemented"]

\* struct TextValue(String)
TextValue(combined_text) == <<combined_text>>

RECURSIVE join(_)
\* Vec<String>::join("")
join(parts) == IF Len(parts) = 0 THEN "" ELSE Head(parts) \o join(Tail(parts))

\* impl FromPropertyValue for TextValue
TextValue_from_property_value(value) ==
    IF value.variant = "Text"
    THEN LET rich_text == value.fields.rich_text
         IN  Ok(TextValue(join([i \in 1..Len(rich_text) |-> rich_text[i].plain_text])))
    ELSE WrongPropertyTypeError(<<"Text">>, type_name(value))

\* T::from_property_value, dispatched on the requested type T
from_property_value(T, value) ==
    CASE T = "Vec<RichText>" -> FromVecRichText(value)
      [] T = "Option<Number>" -> FromOptionNumber(value)
      [] T = "Option<SelectedValue>" -> FromOptionSelectedValue(value)
      [] T = "Option<Vec<SelectedValue>>" -> FromOptionVecSelectedValue(value)
      [] T = "Option<DateValue>" -> FromOptionDateValue(value)
      [] T = "FormulaResultValue" -> FromFormulaResultValue(value)
      [] T = "Option<Vec<RelationValue>>" -> FromOptionVecRelationValue(value)
      [] T = "Option<Vec<FileReference>>" -> FromOptionVecFileReference(value)
      [] T = "bool" -> FromBool(value)
      [] T = "Option<String>" -> FromOptionString(value)
      [] T = "DateTime<Utc>" -> FromDateTimeUtc(value)
      [] T = "User" -> FromUser(value)
      [] T = "Option<Vec<User>>" -> FromOptionVecUser(value)
      [] T = "Option<RollupValue>" -> FromOptionRollupValue(value)
      [] T = "TextValue" -> TextValue_from_property_value(value)
      [] OTHER -> NoImpl

\* expect_value closed over the built-in targets
expect_value_BuiltInOnly(T, self) ==
    IF T \in Targets THEN from_property_value(T, self)
    ELSE WrongPropertyTypeError(<<>>, type_name(self))

\* PropertyValue::expect_value: T::from_property_value(self.clone())
expect_value(T, self) == from_property_value(T, self)

(***************************************************************************)
(* The expect_<variant> shortcuts.                                         *)
(***************************************************************************)
\* the unit value ()
Unit == "()"

\* expect_title without its own tag check
expect_title_Untagged(self) == expect_value("Vec<RichText>", self)

\* expect_title reporting the accepted set of its target type
expect_title_WideExpected(self) ==
    IF self.variant = "Title" THEN expect_value("Vec<RichText>", self)
    ELSE WrongPropertyTypeError(<<"Title", "Text">>, type_name(self))

expect_title(self) ==
    IF self.variant = "Title" THEN expect_value("Vec<RichText>", self)
    ELSE WrongPropertyTypeError(<<"Title">>, type_name(self))

expect_text(self) ==
    IF self.variant = "Text" THEN expect_value("Vec<RichText>", self)
    ELSE WrongPropertyTypeError(<<"Text">>, type_name(self))

expect_number(self) ==
    IF self.variant = "Number" THEN expect_value("Option<Number>", self)
    ELSE WrongPropertyTypeError(<<"Number">>, type_name(self))

expect_select(self) ==
    IF self.variant = "Select" THEN expect_value("Option<SelectedValue>", self)
    ELSE WrongPropertyTypeError(<<"Select">>, type_name(self))

expect_status(self) ==
    IF self.variant = "Status" THEN expect_value("Option<SelectedValue>", self)
    ELSE WrongPropertyTypeError(<<"Status">>, type_name(self))

expect_multi_select(self) ==
    IF self.variant = "MultiSelect" THEN expect_value("Option<Vec<SelectedValue>>", self)
    ELSE WrongPropertyTypeError(<<"MultiSelect">>, type_name(self))

expect_date(self) ==
    IF self.variant = "Date" THEN expect_value("Option<DateValue>", self)
    ELSE WrongPropertyTypeError(<<"Date">>, type_name(self))

expect_people(self) ==
    IF self.variant = "People" THEN expect_value("Option<Vec<User>>", self)
    ELSE WrongPropertyTypeError(<<"People">>, type_name(self))

expect_files(self) ==
    IF self.variant = "Files" THEN expect_value("Option<Vec<FileReference>>", self)
    ELSE WrongPropertyTypeError(<<"Files">>, type_name(self))

expect_checkbox(self) ==
    IF self.variant = "Checkbox" THEN expect_value("bool", self)
    ELSE WrongPropertyTypeError(<<"Checkbox">>, type_name(self))

expect_url(self) ==
    IF self.variant = "Url" THEN expect_value("Option<String>", self)
    ELSE WrongPropertyTypeError(<<"Url">>, type_name(self))

expect_email(self) ==
    IF self.variant = "Email" THEN expect_value("Option<String>", self)
    ELSE WrongPropertyTypeError(<<"Email">>, type_name(self))

expect_phone_number(self) ==
    IF self.variant = "PhoneNumber" THEN expect_value("Option<String>", self)
    ELSE WrongPropertyTypeError(<<"PhoneNumber">>, type_name(self))

expect_formula(self) ==
    IF self.variant = "Formula" THEN expect_value("FormulaResultValue", self)
    ELSE WrongPropertyTypeError(<<"Formula">>, type_name(self))

expect_relation(self) ==
    IF self.variant = "Relation" THEN expect_value("Option<Vec<RelationValue>>", self)
    ELSE WrongPropertyTypeError(<<"Relation">>, type_name(self))

expect_rollup(self) ==
    IF self.variant = "Rollup" THEN expect_value("Option<RollupValue>", self)
    ELSE WrongPropertyTypeError(<<"Rollup">>, type_name(self))

expect_created_time(self) ==
    IF self.variant = "CreatedTime" THEN expect_value("DateTime<Utc>", self)
    ELSE WrongPropertyTypeError(<<"CreatedTime">>, type_name(self))

expect_created_by(self) ==
    IF self.variant = "CreatedBy" THEN expect_value("User", self)
    ELSE WrongPropertyTypeError(<<"CreatedBy">>, type_name(self))

expect_last_edited_time(self) ==
    IF self.variant = "LastEditedTime" THEN expect_value("DateTime<Utc>", self)
    ELSE WrongPropertyTypeError(<<"LastEditedTime">>, type_name(self))

expect_last_edited_by(self) ==
    IF self.variant = "LastEditedBy" THEN expect_value("User", self)
    ELSE WrongPropertyTypeError(<<"LastEditedBy">>, type_name(self))

expect_button(self) ==
    IF self.variant = "Button" THEN Ok(Unit)
    ELSE WrongPropertyTypeError(<<"Button">>, type_name(self))

\* the variant names that have an expect_<variant> accessor
VariantNames ==
    {"Title", "Text", "Number", "Select", "Status", "MultiSelect", "Date", "People",
     "Files", "Checkbox", "Url", "Email", "PhoneNumber", "Formula", "Relation",
     "Rollup", "CreatedTime", "CreatedBy", "LastEditedTime", "LastEditedBy", "Button"}

\* expect_<X>() selected by the variant name X
expect(X, self) ==
    CASE X = "Title" -> expect_title(self)
      [] X = "Text" -> expect_text(self)
      [] X = "Number" -> expect_number(self)
      [] X = "Select" -> expect_select(self)
      [] X = "Status" -> expect_status(self)
      [] X = "MultiSelect" -> expect_multi_select(self)
      [] X = "Date" -> expect_date(self)
      [] X = "People" -> expect_people(self)
      [] X = "Files" -> expect_files(self)
      [] X = "Checkbox" -> expect_checkbox(self)
      [] X = "Url" -> expect_url(self)
      [] X = "Email" -> expect_email(self)
      [] X = "PhoneNumber" -> expect_phone_number(self)
      [] X = "Formula" -> expect_formula(self)
      [] X = "Relation" -> expect_relation(self)
      [] X = "Rollup" -> expect_rollup(self)
      [] X = "CreatedTime" -> expect_created_time(self)
      [] X = "CreatedBy" -> expect_created_by(self)
      [] X = "LastEditedTime" -> expect_last_edited_time(self)
      [] X = "LastEditedBy" -> expect_last_edited_by(self)
      [] X = "Button" -> expect_button(self)

(***************************************************************************)
(* Bounded input domains.                                                  *)
(***************************************************************************)
BoundedSeq(S, n) == UNION {[1..k -> S] : k \in 0..n}

PropertyIds == {"p" \o Digit(i) : i \in 1..MaxId}
Strings == {"a", "b"}
Numbers == {0, 42}
Dates == {[year |-> 2021, month |-> 1, day |-> 2], [year |-> 2024, month |-> 12, day |-> 31]}
Times ==
    {[date |-> [year |-> 2021, month |-> 1, day |-> 2], hour |-> 0, minute |-> 0, second |-> 0],
     [date |-> [year |-> 2024, month |-> 12, day |-> 31], hour |-> 23, minute |-> 59, second |-> 59]}

RichTexts == {[plain_text |-> "hello "], [plain_text |-> "world"]}

SelectedValues ==
    {[id |-> Some("o1"), name |-> Some("Done"), color |-> "Green"],
     [id |-> None, name |-> Some("Todo"), color |-> "Red"],
     [id |-> None, name |-> None, color |-> "Default"]}

DateValues ==
    {[start |-> [variant |-> "Date", v |-> d], end |-> None, time_zone |-> None] : d \in Dates}
    \cup {[start |-> [variant |-> "DateTime", v |-> t],
           end |-> Some([variant |-> "DateTime", v |-> t]),
           time_zone |-> Some("UTC")] : t \in Times}

FormulaResultValues ==
    {[variant |-> "String", fields |-> [string |-> Some("a")]],
     [variant |-> "String", fields |-> [string |-> None]],
     [variant |-> "Number", fields |-> [number |-> Some(42)]],
     [variant |-> "Boolean", fields |-> [boolean |-> Some(TRUE)]],
     [variant |-> "Date", fields |-> [date |-> None]]}

RelationValues == {[id |-> "page1"], [id |-> "page2"]}

FileReferences ==
    {[variant |-> "External", fields |-> [name |-> "a", external |-> [url |-> "http://x"]]],
     [variant |-> "File", fields |-> [name |-> "b", file |-> [url |-> "http://y", expiry_time |-> "soon"]]]}

Users ==
    {[variant |-> "Person",
      fields |-> [common |-> [id |-> "u1", name |-> Some("Ann"), avatar_url |-> None],
                  person |-> [email |-> Some("ann@x")]]],
     [variant |-> "Bot",
      fields |-> [common |-> [id |-> "u2", name |-> None, avatar_url |-> Some("http://a")],
                  bot |-> [email |-> None]]],
     [variant |-> "User",
      fields |-> [common |-> [id |-> "u3", name |-> None, avatar_url |-> None],
                  person |-> None]]}

RollupPropertyValues ==
    {[variant |-> "Text", fields |-> [rich_text |-> <<[plain_text |-> "world"]>>]],
     [variant |-> "Number", fields |-> [number |-> Some(42)]],
     [variant |-> "PhoneNumber", fields |-> [phone_number |-> "555"]]}

RollupValues ==
    {[variant |-> "Number", fields |-> [number |-> n]] : n \in {None, Some(42)}}
    \cup {[variant |-> "Date", fields |-> [date |-> None]]}
    \cup {[variant |-> "Array", fields |-> [array |-> a]] :
            a \in BoundedSeq(RollupPropertyValues, MaxLen)}

\* the static metadata of the PropertyConfiguration variants that carry some
SelectOptions == {[name |-> "Done", id |-> "o1", color |-> "Green"]}
StatusGroupOptions ==
    {[name |-> "Complete", id |-> "g1", color |-> "Gray", option_ids |-> <<"o1">>]}
NumberDetailsValues == {[format |-> f] : f \in {"Number", "NumberWithCommas"}}
SelectValues == {[options |-> o] : o \in BoundedSeq(SelectOptions, 1)}
StatusValues ==
    {[options |-> o, groups |-> g] :
        o \in BoundedSeq(SelectOptions, 1), g \in BoundedSeq(StatusGroupOptions, 1)}
FormulaValues == {[expression |-> e] : e \in Strings}
RelationValuesOfSchema ==
    {[database_id |-> "db1", synced_property_name |-> n, synced_property_id |-> i] :
        n \in {None, Some("a")}, i \in {None, Some("p1")}}
RollupValuesOfSchema ==
    {[relation_property_name |-> "a", relation_property_id |-> "p1",
      rollup_property_name |-> "b", rollup_property_id |-> "p2", function |-> f] :
        f \in {"Count", "ShowOriginal"}}

RECURSIVE Samples(_)
\* the generated in-memory values of a type
Samples(ty) ==
    CASE ty.k = "string" -> Strings
      [] ty.k = "bool" -> BOOLEAN
      [] ty.k = "number" -> Numbers
      [] ty.k = "datetime" -> Times
      [] ty.k = "option" -> {None} \cup {Some(x) : x \in Samples(ty.of)}
      [] ty.k = "vec" -> BoundedSeq(Samples(ty.of), MaxLen)
      [] ty.k = "named" ->
            CASE ty.name = "PropertyId" -> PropertyIds
              [] ty.name = "RichText" -> RichTexts
              [] ty.name = "SelectedValue" -> SelectedValues
              [] ty.name = "DateValue" -> DateValues
              [] ty.name = "FormulaResultValue" -> FormulaResultValues
              [] ty.name = "RelationValue" -> RelationValues
              [] ty.name = "RollupValue" -> RollupValues
              [] ty.name = "FileReference" -> FileReferences
              [] ty.name = "User" -> Users
              [] ty.name = "NumberDetails" -> NumberDetailsValues
              [] ty.name = "Select" -> SelectValues
              [] ty.name = "Status" -> StatusValues
              [] ty.name = "Formula" -> FormulaValues
              [] ty.name = "Relation" -> RelationValuesOfSchema
              [] ty.name = "Rollup" -> RollupValuesOfSchema

\* the generated values of one PropertyValue variant: an id and, but for
\* Button, a payload
VariantValues(v) ==
    IF Len(v.fields) = 1
    THEN {[variant |-> v.name, fields |-> (v.fields[1].name :> i)] :
            i \in Samples(v.fields[1].ty)}
    ELSE {[variant |-> v.name,
           fields |-> (v.fields[1].name :> i) @@ (v.fields[2].name :> p)] :
            i \in Samples(v.fields[1].ty), p \in Samples(v.fields[2].ty)}

PropertyValues ==
    UNION {VariantValues(PropertyValue.variants[k]) : k \in 1..Len(PropertyValue.variants)}

PropertyConfigurations ==
    UNION {VariantValues(PropertyConfiguration.variants[k]) :
            k \in 1..Len(PropertyConfiguration.variants)}

\* well-formed wire objects and the malformed ones next to them: a key
\* dropped, the tag replaced, the payload replaced by another JSON type
Replacements == {JNull, JStr("x"), JBool(TRUE), JNum(1), JArr(<<>>)}
OtherTags == {"text", "Text", "unknown", "checkbox", "rich_text"}
Malformed(j) ==
    {JObj(Without(j.o, k)) : k \in DOMAIN j.o}
    \cup {JObj([j.o EXCEPT !["type"] = JStr(tag)]) : tag \in OtherTags}
    \cup {JObj([j.o EXCEPT ![k] = r]) : k \in DOMAIN j.o \ {"type"}, r \in Replacements}
    \cup {JObj(j.o @@ ("extra" :> JNull))}

\* the checkbox object of the scenario, with and without the property id
CheckboxObject == JObj([type |-> JStr("checkbox"), checkbox |-> JBool(TRUE)])
CheckboxObjectWithId(i) ==
    JObj([id |-> JStr(i), type |-> JStr("checkbox"), checkbox |-> JBool(TRUE)])
\* a date property whose date object has only start
DateStartOnlyObject(start) ==
    JObj([id |-> JStr("p1"), type |-> JStr("date"), date |-> JObj([start |-> JStr(start)])])
CalendarDates == {"2021-01-02", "2024-12-31"}
Timestamps == {"2021-01-02T00:00:00Z"}
\* the rollup property of parse_rollup_property: an array whose first element
\* is of type rich_text
RollupArrayObject ==
    JObj([id |-> JStr("p1"), type |-> JStr("rollup"),
          rollup |-> JObj([type |-> JStr("array"),
                           array |-> JArr(<<JObj([type |-> JStr("rich_text"),
                                                  rich_text |-> JArr(<<JObj([plain_text |-> JStr("world")])>>)]),
                                            JObj([type |-> JStr("number"), number |-> JNum(42)])>>)])])
\* struct payloads written as the JSON array of their fields
DateArrayObject ==
    JObj([id |-> JStr("p1"), type |-> JStr("date"),
          date |-> JArr(<<JStr("2021-01-02"), JNull, JNull>>)])
SelectArrayObject ==
    JObj([id |-> JStr("p1"), type |-> JStr("select"),
          select |-> JArr(<<JStr("o1"), JStr("Done"), JStr("green")>>)])
ShortArrayObject ==
    JObj([id |-> JStr("p1"), type |-> JStr("date"), date |-> JArr(<<JStr("2021-01-02")>>)])

\* the formula results of parse_number_formula and of the formula property
\* tests, and results with another tag, payload key or payload type
FormulaResultObjects ==
    {JObj([type |-> JStr("number"), number |-> JNum(n)]) : n \in Numbers}
    \cup {JObj([type |-> JStr("string"), string |-> JStr(x)]) : x \in Strings}
    \cup {JObj([type |-> JStr("boolean"), boolean |-> JBool(b)]) : b \in BOOLEAN}
    \cup {JObj([type |-> JStr("date"), date |-> JObj([start |-> JStr(d)])]) :
                d \in CalendarDates \cup Timestamps}
    \cup {JObj([type |-> JStr("number"), number |-> JNull]),
          JObj([type |-> JStr("number")]),
          JObj([type |-> JStr("number"), string |-> JStr("a")]),
          JObj([type |-> JStr("number"), number |-> JStr("a")]),
          JObj([type |-> JStr("Number"), number |-> JNum(0)]),
          JObj([type |-> JStr("array"), array |-> JArr(<<>>)]),
          JObj([number |-> JNum(0)])}
FormulaObject(f) == JObj([id |-> JStr("p1"), type |-> JStr("formula"), formula |-> f])

Scenarios ==
    {CheckboxObject} \cup {CheckboxObjectWithId(i) : i \in PropertyIds}
    \cup {DateStartOnlyObject(d) : d \in CalendarDates \cup Timestamps}
    \cup {RollupArrayObject, DateArrayObject, SelectArrayObject, ShortArrayObject}
    \cup {FormulaObject(f) : f \in FormulaResultObjects}

\* the lists of parse_phone_number_values: phone-number property values with
\* a null or a string payload, and lists with an element that is none
PhoneNumberObjects ==
    {JObj([id |-> JStr("p1"), type |-> JStr("phone_number"), phone_number |-> p]) :
        p \in {JNull} \cup {JStr(x) : x \in Strings}}
NotPhoneNumberObject ==
    JObj([id |-> JStr("p1"), type |-> JStr("phone_number"), phone_number |-> JNum(1)])
PhoneNumberLists == {JArr(l) : l \in BoundedSeq(PhoneNumberObjects \cup {NotPhoneNumberObject}, MaxLen)}

WellFormed == {ToJson(Named("PropertyValue"), v) : v \in PropertyValues}
WireInputs == WellFormed \cup UNION {Malformed(j) : j \in WellFormed} \cup Scenarios

(***************************************************************************)
(* State.  property is the PropertyValue the caller holds (NoValue when   *)
(* it holds none yet), wire the JSON text waiting to be decoded (NoWire   *)
(* when there is none), origin the value a waiting text was encoded from, *)
(* call the last operation, with its input, and result what it returned,  *)
(* request the HTTP exchange of a client operation (NoRequest outside the *)
(* client).                                                               *)
(* The caller is sequential: a text it produced or received is decoded    *)
(* before it makes its next call on a value.                              *)
(***************************************************************************)
NoValue == [variant |-> "(none)"]
NoWire == [t |-> "(none)"]
NoResult == [ok |-> FALSE]
\* no thread shares the value: the caller is sequential
NoThreads == <<>>
\* no HTTP request is in progress: the value model does no I/O
NoRequest == [pc |-> "none"]
Call(op, target, input, from) ==
    [op |-> op, target |-> target, input |-> input, from |-> from]

Init ==
    /\ \/ property \in PropertyValues /\ wire = NoWire
       \/ property = NoValue /\ wire \in WireInputs \cup PhoneNumberLists
    /\ origin = NoValue
    /\ call = Call("new", "", NoWire, NoValue)
    /\ result = NoResult
    /\ threads = NoThreads
    /\ request = NoRequest

\* expect_value taking the value by move instead of cloning it
ExpectValue_Consumes(T) ==
    /\ property # NoValue /\ wire = NoWire
    /\ result' = expect_value(T, property)
    /\ call' = Call("expect_value", T, NoWire, NoValue)
    /\ property' = NoValue
    /\ UNCHANGED <<wire, origin, threads, request>>

\* property.expect_value::<T>()
ExpectValue(T) ==
    /\ property # NoValue /\ wire = NoWire
    /\ result' = expect_value(T, property)
    /\ call' = Call("expect_value", T, NoWire, NoValue)
    /\ UNCHANGED <<property, wire, origin, threads, request>>

\* property.expect_<X>()
Expect(X) ==
    /\ property # NoValue /\ wire = NoWire
    /\ result' = expect(X, property)
    /\ call' = Call("expect", X, NoWire, NoValue)
    /\ UNCHANGED <<property, wire, origin, threads, request>>

\* property.type_name()
TypeName ==
    /\ property # NoValue /\ wire = NoWire
    /\ result' = Ok(type_name(property))
    /\ call' = Call("type_name", "", NoWire, NoValue)
    /\ UNCHANGED <<property, wire, origin, threads, request>>

\* property.id()
Id ==
    /\ property # NoValue /\ wire = NoWire
    /\ result' = Ok(id(property))
    /\ call' = Call("id", "", NoWire, NoValue)
    /\ UNCHANGED <<property, wire, origin, threads, request>>

\* serde_json::to_value(&property)
Encode ==
    /\ property # NoValue /\ wire = NoWire
    /\ wire' = ToJson(Named("PropertyValue"), property)
    /\ origin' = property
    /\ result' = Ok(Unit)
    /\ call' = Call("encode", "", NoWire, NoValue)
    /\ UNCHANGED <<property, threads, request>>

\* serde_json::from_value::<PropertyValue>(wire): the input is consumed, and
\* a value is produced only when the whole object decodes
Decode ==
    /\ wire # NoWire
    /\ LET r == FromJson(Named("PropertyValue"), wire)
       IN  /\ result' = r
           /\ property' = IF r.ok THEN r.v ELSE property
    /\ call' = Call("decode", "", wire, origin)
    /\ wire' = NoWire
    /\ origin' = NoValue
    /\ UNCHANGED <<threads, request>>

\* serde_json::from_value::<Vec<PropertyValue>>(wire): the list is produced
\* only when every element decodes
DecodeAll ==
    /\ wire # NoWire /\ wire.t = "arr"
    /\ result' = FromJson(Vec(Named("PropertyValue")), wire)
    /\ call' = Call("decode_all", "", wire, origin)
    /\ wire' = NoWire
    /\ origin' = NoValue
    /\ UNCHANGED <<property, threads, request>>

Next ==
    \/ \E T \in Targets \cup CallerTargets : ExpectValue(T)
    \/ \E X \in VariantNames : Expect(X)
    \/ TypeName
    \/ Id
    \/ Encode
    \/ Decode
    \/ DecodeAll

Spec == Init /\ [][Next]_vars

(***************************************************************************)
(* Properties of the narrowing layer.                                      *)
(***************************************************************************)
\* the last call narrowed to a built-in target
Narrowed == call.op \in {"expect", "expect_value"} /\ call.target \notin CallerTargets
Range(f) == {f[i] : i \in DOMAIN f}

\* C1: expect_<X>() returns Ok if and only if the value's variant is exactly
\* X, for every one of the 21 variants X and every value; so expect_title()
\* on a Text value and expect_text() on a Title value fail.
C1_ExpectOkIffExactVariant ==
    call.op = "expect" => (result.ok <=> property.variant = call.target)

C1_Witness ==
    /\ call.op = "expect" /\ call.target = "Title"
    /\ property.variant = "Text" /\ ~result.ok

\* C2: expect_<X>() on a value of another variant Y returns
\* WrongPropertyTypeError {expected: [X], actual: Y}: the single name X, never
\* the wider accepted set of the target type.
C2_ExpectErrorNamesOnlyX ==
    (call.op = "expect" /\ property.variant # call.target)
        => result = WrongPropertyTypeError(<<call.target>>, property.variant)

C2_Witness ==
    /\ call.op = "expect" /\ call.target = "Number" /\ property.variant = "Checkbox"
    /\ result = WrongPropertyTypeError(<<"Number">>, "Checkbox")

\* the variant sets the multi-variant targets are documented to accept
DocumentedVariants(T) ==
    CASE T = "Vec<RichText>" -> {"Title", "Text"}
      [] T = "Option<String>" -> {"Url", "Email", "PhoneNumber"}
      [] T = "User" -> {"CreatedBy", "LastEditedBy"}

\* C3: expect_value::<Vec<RichText>>() succeeds exactly on Title and Text,
\* expect_value::<Option<String>>() exactly on Url, Email and PhoneNumber,
\* expect_value::<User>() exactly on CreatedBy and LastEditedBy; on every
\* other variant each fails with actual equal to the value's variant name.
C3_MultiVariantTargets ==
    (call.op = "expect_value" /\ call.target \in {"Vec<RichText>", "Option<String>", "User"})
        => /\ result.ok <=> property.variant \in DocumentedVariants(call.target)
           /\ ~result.ok => result.actual = property.variant

C3_Witness ==
    /\ call.op = "expect_value" /\ call.target = "Option<String>"
    /\ property.variant = "PhoneNumber" /\ result.ok

\* the variant names on which expect_value::<T>() succeeds
Accepts(T) == {v.variant : v \in {w \in PropertyValues : expect_value(T, w).ok}}

\* C4: when expect_value::<T>() fails on v, for each of the 14 built-in
\* targets T, the error's expected list is exactly the set of variant names
\* on which expect_value::<T>() succeeds, each once, and actual is
\* v.type_name().
C4_ExpectedIsAcceptedSet ==
    (call.op = "expect_value" /\ ~result.ok)
        => /\ Range(result.expected) = Accepts(call.target)
           /\ Len(result.expected) = Cardinality(Accepts(call.target))
           /\ result.actual = type_name(property)
           /\ result.actual = property.variant

C4_Witness ==
    /\ call.op = "expect_value" /\ call.target = "Option<SelectedValue>"
    /\ property.variant = "MultiSelect"
    /\ result = WrongPropertyTypeError(<<"Select", "Status">>, "MultiSelect")

\* C5: expect_value::<Option<SelectedValue>>() returns Ok on a Select, a
\* Status and a MultiSelect value.
C5_OptionSelectedValueAcceptsMultiSelect ==
    (/\ call.op = "expect_value" /\ call.target = "Option<SelectedValue>"
     /\ property.variant \in {"Select", "Status", "MultiSelect"})
        => result.ok

RECURSIVE TextLengthBefore(_, _)
\* the length of the plain text of the spans before span k
TextLengthBefore(spans, k) ==
    IF k = 1 THEN 0 ELSE TextLengthBefore(spans, k - 1) + Len(spans[k - 1].plain_text)
\* s is the plain text of the spans, one after the other in their order
IsConcatenation(s, spans) ==
    /\ Len(s) = TextLengthBefore(spans, Len(spans) + 1)
    /\ \A k \in 1..Len(spans) :
          SubSeq(s, TextLengthBefore(spans, k) + 1, TextLengthBefore(spans, k + 1))
              = spans[k].plain_text

\* C18: a target type defined by calling code is dispatched through
\* expect_value like a built-in one: v.expect_value::<T>() returns what
\* T::from_property_value returns on a copy of v.  TextValue, which accepts
\* only Text, yields the concatenation of the spans' plain text in order on a
\* Text value and WrongPropertyTypeError {expected: ["Text"], actual:
\* v.type_name()} on every other variant.
C18_CallerTargetIsDispatched ==
    call.op = "expect_value"
        => /\ result = from_property_value(call.target, property)
           /\ call.target = "TextValue"
                => IF property.variant = "Text"
                   THEN /\ result.ok
                        /\ Len(result.v) = 1
                        /\ IsConcatenation(result.v[1], property.fields.rich_text)
                   ELSE result = WrongPropertyTypeError(<<"Text">>, type_name(property))

C18_Witness ==
    /\ call.op = "expect_value" /\ call.target = "TextValue"
    /\ property.variant = "Text" /\ Len(property.fields.rich_text) = 2
    /\ result = Ok(TextValue("hello world"))

\* the calls that read a value through &self
NarrowingOps == {"expect_value", "expect", "id", "type_name"}

\* C19: narrowing never mutates its receiver: across every expect_value::<T>(),
\* expect_<X>(), id() and type_name() call, successful or failing, the value
\* stays equal to what it was, and the same call made again returns the same
\* result.
C19_NarrowingLeavesReceiver ==
    [][call'.op \in NarrowingOps
          => /\ property' = property
             /\ (call.op = call'.op /\ call.target = call'.target) => result' = result]_vars

C19_Witness ==
    /\ call.op = "expect" /\ call.target = "Select" /\ ~result.ok
    /\ property.variant = "Status" /\ property.fields.status.some

\* the target each expect_<X> is documented to be the shortcut of
ShortcutTarget ==
    [X \in VariantNames |->
        CASE X \in {"Title", "Text"} -> "Vec<RichText>"
          [] X = "Number" -> "Option<Number>"
          [] X \in {"Select", "Status"} -> "Option<SelectedValue>"
          [] X = "MultiSelect" -> "Option<Vec<SelectedValue>>"
          [] X = "Date" -> "Option<DateValue>"
          [] X = "People" -> "Option<Vec<User>>"
          [] X = "Files" -> "Option<Vec<FileReference>>"
          [] X = "Checkbox" -> "bool"
          [] X \in {"Url", "Email", "PhoneNumber"} -> "Option<String>"
          [] X = "Formula" -> "FormulaResultValue"
          [] X = "Relation" -> "Option<Vec<RelationValue>>"
          [] X = "Rollup" -> "Option<RollupValue>"
          [] X \in {"CreatedTime", "LastEditedTime"} -> "DateTime<Utc>"
          [] X \in {"CreatedBy", "LastEditedBy"} -> "User"
          [] X = "Button" -> "()"]

\* expect_<X>() agrees with expect_value::<T_X>() on the values of variant X
\* and wherever it succeeds
IsShortcut(X) ==
    (call.op = "expect" /\ call.target = X)
        => /\ property.variant = X
                => result = expect_value(ShortcutTarget[X], property)
           /\ result.ok => expect_value(ShortcutTarget[X], property) = result
           /\ (~result.ok /\ expect_value(ShortcutTarget[X], property).ok)
                => property.variant \in Accepts(ShortcutTarget[X]) \ {X}

\* C21: each expect_<X>() is a shortcut for the corresponding
\* expect_value::<T_X>(): on every value of variant X the two return equal
\* results, and whenever expect_<X>() succeeds, expect_value::<T_X>() succeeds
\* with the same payload; the converse fails only on the other variants T_X
\* accepts.
C21_ExpectIsShortcut == \A X \in VariantNames : IsShortcut(X)

\* the same for the shortcuts other than expect_button
ExpectIsShortcutButButton == \A X \in VariantNames \ {"Button"} : IsShortcut(X)

(***************************************************************************)
(* Properties of the wire format.                                          *)
(***************************************************************************)
\* the type string of the decoded input, "" when it has none
InputTag ==
    IF HasKey(call.input, "type") /\ call.input.o["type"].t = "str"
    THEN call.input.o["type"].s ELSE ""

\* C6 as stated: decoding {"type":"checkbox","checkbox":true}, the type and
\* the payload key and nothing else, succeeds and yields Checkbox with
\* checkbox = true.
C6_CheckboxObjectDecodes ==
    (call.op = "decode" /\ call.input = CheckboxObject)
        => /\ result.ok
           /\ result.v.variant = "Checkbox"
           /\ result.v.fields.checkbox = TRUE

\* C6 amended: decoding {"id":i,"type":"checkbox","checkbox":true} succeeds
\* and yields Checkbox with id i and checkbox = true; the same object without
\* the id key is a decode error.
C6_CheckboxObjectWithIdDecodes ==
    call.op = "decode"
        => /\ \A i \in PropertyIds :
                call.input = CheckboxObjectWithId(i)
                    => result = Ok([variant |-> "Checkbox",
                                    fields |-> [id |-> i, checkbox |-> TRUE]])
           /\ call.input = CheckboxObject => ~result.ok

C6_Witness ==
    /\ call.op = "decode" /\ call.input = CheckboxObjectWithId("p1")
    /\ result.ok /\ property.variant = "Checkbox" /\ property.fields.checkbox = TRUE

\* the payload field of a PropertyValue variant, by its declaration
PayloadField(name) == VariantNamed(TaggedEnum("type", "snake_case", PropertyValueVariants), name).fields[2].name
Stored(v) == v.fields[PayloadField(v.variant)]

\* C7: a successful narrowing returns exactly the stored payload, unmodified
\* (an absent optional payload as None); only expect_people wraps the stored
\* user sequence as Some, never None, even when the sequence is empty.
C7_NarrowingReturnsStoredPayload ==
    (Narrowed /\ result.ok)
        => CASE property.variant = "Button" -> result.v = Unit
             [] property.variant = "People" -> result.v = Some(Stored(property))
             [] OTHER -> result.v = Stored(property)

C7_Witness ==
    /\ call.op = "expect" /\ call.target = "People"
    /\ property.variant = "People" /\ Len(property.fields.people) = 0
    /\ result = Ok(Some(<<>>))

\* C8: round trip: decoding the JSON produced by encoding V{P} yields a value
\* equal to V{P}: same variant, same id, same payload, absent optional
\* payloads and empty sequences included.
C8_RoundTrip ==
    (call.op = "decode" /\ call.from # NoValue)
        => /\ result = Ok(call.from)
           /\ property = call.from

C8_Witness ==
    /\ call.op = "decode" /\ call.from.variant = "MultiSelect"
    /\ call.from.fields.multi_select = Some(<<>>)
    /\ result = Ok(call.from)

TagsDistinct(def) ==
    \A i, j \in 1..Len(def.variants) :
        i # j => VariantTag(def, def.variants[i]) # VariantTag(def, def.variants[j])

\* C9: tag exclusivity: within PropertyValue, PropertyConfiguration and
\* RollupPropertyValue any two distinct variants have distinct wire tags, so
\* the type string of a decoded object selects at most one variant.
PropertyValueTagsDistinct == TagsDistinct(PropertyValue)
PropertyConfigurationTagsDistinct == TagsDistinct(PropertyConfiguration)
RollupPropertyValueTagsDistinct == TagsDistinct(RollupPropertyValue)
\* the wire tags of PropertyValue, by position of the variant
PropertyValueTags ==
    [i \in 1..Len(PropertyValue.variants) |-> VariantTag(PropertyValue, PropertyValue.variants[i])]

C9_TagExclusivity ==
    /\ PropertyValueTagsDistinct
    /\ PropertyConfigurationTagsDistinct
    /\ RollupPropertyValueTagsDistinct
    /\ call.op = "decode"
        => Cardinality({i \in DOMAIN PropertyValueTags : PropertyValueTags[i] = InputTag}) <= 1

C9_Witness ==
    /\ call.op = "decode" /\ InputTag = "status"
    /\ result.ok /\ result.v.variant = "Status"

\* the snake_case form of each variant name
SnakeCaseName(name) ==
    CASE name = "Title" -> "title" [] name = "Text" -> "text"
      [] name = "Number" -> "number" [] name = "Select" -> "select"
      [] name = "Status" -> "status" [] name = "MultiSelect" -> "multi_select"
      [] name = "Date" -> "date" [] name = "People" -> "people"
      [] name = "Files" -> "files" [] name = "Checkbox" -> "checkbox"
      [] name = "Url" -> "url" [] name = "Email" -> "email"
      [] name = "PhoneNumber" -> "phone_number" [] name = "Formula" -> "formula"
      [] name = "Relation" -> "relation" [] name = "Rollup" -> "rollup"
      [] name = "CreatedTime" -> "created_time" [] name = "CreatedBy" -> "created_by"
      [] name = "LastEditedTime" -> "last_edited_time"
      [] name = "LastEditedBy" -> "last_edited_by" [] name = "Button" -> "button"

\* C10: the wire tag of Text is rich_text: an object of type rich_text
\* decodes to Text and to no other variant, encoding a Text value writes type
\* rich_text and the payload key rich_text, an object of type text decodes to
\* no variant, and every other variant is written with the snake_case form
\* of its name as type.
C10_TextIsRichTextOnTheWire ==
    /\ (call.op = "decode" /\ result.ok)
            => (result.v.variant = "Text" <=> InputTag = "rich_text")
    /\ (call.op = "decode" /\ InputTag = "text") => ~result.ok
    /\ (call.op = "encode" /\ property.variant = "Text")
            => /\ wire.o["type"] = JStr("rich_text")
               /\ "rich_text" \in DOMAIN wire.o
               /\ "text" \notin DOMAIN wire.o
    /\ (call.op = "encode" /\ property.variant # "Text")
            => wire.o["type"] = JStr(SnakeCaseName(property.variant))

C10_Witness ==
    /\ call.op = "decode" /\ InputTag = "rich_text" /\ call.from = NoValue
    /\ result.ok /\ result.v.variant = "Text" /\ Len(result.v.fields.rich_text) > 0

RECURSIVE DocumentedKinds(_), AcceptedKinds(_)
\* the JSON types the wire format gives a declaration: an object for a struct
\* or a tagged enum, an array for a sequence, null besides for an Option
DocumentedKinds(ty) ==
    CASE ty.k \in {"string", "date", "datetime"} -> {"str"}
      [] ty.k = "bool" -> {"bool"}
      [] ty.k = "number" -> {"num"}
      [] ty.k = "option" -> {"null"} \cup DocumentedKinds(ty.of)
      [] ty.k = "vec" -> {"arr"}
      [] ty.k = "named" ->
            LET def == TypeDef(ty.name)
            IN  CASE def.k \in {"struct", "enum"} -> {"obj"}
                  [] def.k = "unit_enum" -> {"str"}
                  [] def.k = "transparent" -> DocumentedKinds(def.of)
                  [] def.k = "untagged" ->
                        UNION {DocumentedKinds(def.variants[i].ty) : i \in 1..Len(def.variants)}
\* the same, with the array of its fields besides for a struct or a tagged
\* enum
AcceptedKinds(ty) ==
    CASE ty.k = "option" -> {"null"} \cup AcceptedKinds(ty.of)
      [] ty.k = "named" /\ TypeDef(ty.name).k \in {"struct", "enum"} -> {"obj", "arr"}
      [] OTHER -> DocumentedKinds(ty)

\* by position of the variant: its payload key ("" for Button) and the JSON
\* types of the payload
PayloadKeys ==
    [i \in 1..Len(PropertyValueVariants) |->
        IF Len(PropertyValueVariants[i].fields) = 2
        THEN PropertyValueVariants[i].fields[2].name ELSE ""]
PayloadDocumentedKinds ==
    [i \in 1..Len(PropertyValueVariants) |->
        IF Len(PropertyValueVariants[i].fields) = 2
        THEN DocumentedKinds(PropertyValueVariants[i].fields[2].ty) ELSE {}]
PayloadAcceptedKinds ==
    [i \in 1..Len(PropertyValueVariants) |->
        IF Len(PropertyValueVariants[i].fields) = 2
        THEN AcceptedKinds(PropertyValueVariants[i].fields[2].ty) ELSE {}]
FieldNames ==
    [i \in 1..Len(PropertyValueVariants) |->
        {PropertyValueVariants[i].fields[k].name : k \in 1..Len(PropertyValueVariants[i].fields)}]
VariantIndex ==
    [n \in VariantNames |->
        CHOOSE i \in 1..Len(PropertyValueVariants) : PropertyValueVariants[i].name = n]

\* the position of the variant the input's type string selects, 0 if none
InputVariant ==
    LET hits == {i \in DOMAIN PropertyValueTags : PropertyValueTags[i] = InputTag}
    IN  IF hits = {} THEN 0 ELSE CHOOSE i \in hits : TRUE

\* the payload keys of the variants whose payload is not optional
RequiredPayloadKeys ==
    {"title", "rich_text", "people", "checkbox", "formula", "created_time",
     "created_by", "last_edited_time", "last_edited_by"}

\* every decode ends in a complete value or in an error, never in both or in
\* a part of a value
CompleteOrError ==
    call.op = "decode"
        => IF result.ok
           THEN /\ result.v.variant \in VariantNames
                /\ DOMAIN result.v.fields = FieldNames[VariantIndex[result.v.variant]]
                /\ property = result.v
           ELSE /\ "v" \notin DOMAIN result
                /\ property = NoValue

\* an object of a known type without its id, or without a payload that is
\* not optional, is a decode error
MissingFieldIsError ==
    (call.op = "decode" /\ InputVariant # 0)
        => /\ "id" \notin DOMAIN call.input.o => ~result.ok
           /\ (/\ PayloadKeys[InputVariant] \in RequiredPayloadKeys
               /\ PayloadKeys[InputVariant] \notin DOMAIN call.input.o) => ~result.ok

RollupArrayInput ==
    /\ call.op = "decode" /\ InputTag = "rollup"
    /\ "rollup" \in DOMAIN call.input.o
    /\ call.input.o["rollup"].t = "obj"
    /\ "type" \in DOMAIN call.input.o["rollup"].o
    /\ call.input.o["rollup"].o["type"] = JStr("array")
    /\ "array" \in DOMAIN call.input.o["rollup"].o
    /\ call.input.o["rollup"].o["array"].t = "arr"

\* the type string of a RollupPropertyValue variant
RollupElementTag(name) == IF name = "Text" THEN "rich_text" ELSE SnakeCaseName(name)

\* C15: decoding a rollup property whose rollup has type array and whose first
\* element has type rich_text yields Rollup holding Some(RollupValue::Array)
\* whose element 0 is RollupPropertyValue::Text; each element is decoded by
\* its own type tag into the variant of that tag, in wire order.
C15_RollupArrayElementsByTag ==
    /\ (call.op = "decode" /\ call.input = RollupArrayObject)
            => /\ result.ok
               /\ result.v.variant = "Rollup"
               /\ result.v.fields.rollup.some
               /\ result.v.fields.rollup.v.variant = "Array"
               /\ result.v.fields.rollup.v.fields.array[1] =
                      [variant |-> "Text", fields |-> [rich_text |-> <<[plain_text |-> "world"]>>]]
    /\ (RollupArrayInput /\ result.ok)
            => LET elems == call.input.o["rollup"].o["array"].a
                   rollup == result.v.fields.rollup
               IN  /\ result.v.variant = "Rollup"
                   /\ rollup.some /\ rollup.v.variant = "Array"
                   /\ Len(rollup.v.fields.array) = Len(elems)
                   /\ \A k \in 1..Len(elems) :
                          (elems[k].t = "obj" /\ "type" \in DOMAIN elems[k].o)
                              => JStr(RollupElementTag(rollup.v.fields.array[k].variant))
                                    = elems[k].o["type"]

C15_Witness ==
    /\ call.op = "decode" /\ call.input = RollupArrayObject
    /\ result.ok /\ Len(property.fields.rollup.v.fields.array) = 2
    /\ property.fields.rollup.v.fields.array[1].variant = "Text"
    /\ property.fields.rollup.v.fields.array[2].variant = "Number"

\* the calendar date a date text stands for
CalendarDateValue(d) ==
    CASE d = "2021-01-02" -> [year |-> 2021, month |-> 1, day |-> 2]
      [] d = "2024-12-31" -> [year |-> 2024, month |-> 12, day |-> 31]

\* the decoded input is a date property whose date is an object
DateObjectInput ==
    /\ call.op = "decode" /\ InputTag = "date"
    /\ "date" \in DOMAIN call.input.o
    /\ call.input.o["date"].t = "obj"

\* C16: decoding a date property whose date object has only start, a calendar
\* date without time, yields a DateValue whose start is the Date variant of
\* DateOrDateTime, never DateTime, and whose end and time_zone are None.
C16_StartOnlyCalendarDate ==
    /\ \A d \in CalendarDates :
            (call.op = "decode" /\ call.input = DateStartOnlyObject(d))
                => result = Ok([variant |-> "Date",
                                fields |-> [id |-> "p1",
                                            date |-> Some([start |-> [variant |-> "Date",
                                                                      v |-> CalendarDateValue(d)],
                                                           end |-> None,
                                                           time_zone |-> None])]])
    /\ (DateObjectInput /\ result.ok)
            => LET date == call.input.o["date"].o
                   value == result.v.fields.date.v
               IN  /\ ("start" \in DOMAIN date /\ date["start"].t = "str"
                            /\ Len(date["start"].s) = 10)
                        => value.start.variant = "Date"
                   /\ "end" \notin DOMAIN date => value.end = None
                   /\ "time_zone" \notin DOMAIN date => value.time_zone = None

C16_Witness ==
    /\ call.op = "decode" /\ call.input = DateStartOnlyObject("2021-01-02")
    /\ result.ok /\ property.fields.date.v.start.variant = "Date"
    /\ property.fields.date.v.end = None /\ property.fields.date.v.time_zone = None

\* the variants whose payload is an Option
OptionalPayloadVariants ==
    {"Number", "Select", "Status", "MultiSelect", "Date", "Relation", "Rollup", "Files",
     "Url", "Email", "PhoneNumber"}

\* the input is an object with a text id, the type of an optional-payload
\* variant and null under the payload key of that variant
NullPayloadInput ==
    /\ InputVariant # 0
    /\ PropertyValueVariants[InputVariant].name \in OptionalPayloadVariants
    /\ HasKey(call.input, "id") /\ call.input.o["id"].t = "str"
    /\ HasKey(call.input, PayloadKeys[InputVariant])
    /\ call.input.o[PayloadKeys[InputVariant]] = JNull

\* the PropertyValue a phone-number object stands for
PhoneNumberOf(j) ==
    [variant |-> "PhoneNumber",
     fields |-> [id |-> j.o["id"].s,
                 phone_number |-> IF j.o["phone_number"] = JNull THEN None
                                  ELSE Some(j.o["phone_number"].s)]]

\* C23: for every PropertyValue variant with an optional payload (Number,
\* Select, Status, MultiSelect, Date, Relation, Rollup, Files, Url, Email,
\* PhoneNumber) a JSON null payload decodes to that variant with payload None,
\* the matching expect_<X>() then returns Ok(None), and a list of phone-number
\* property values mixing null and string payloads decodes element by element.
C23_NullPayloadIsNone ==
    /\ (call.op = "decode" /\ NullPayloadInput)
            => /\ result.ok
               /\ result.v.variant = PropertyValueVariants[InputVariant].name
               /\ Stored(result.v) = None
               /\ expect(result.v.variant, result.v) = Ok(None)
    /\ (/\ call.op = "expect" /\ call.target \in OptionalPayloadVariants
         /\ property.variant = call.target /\ Stored(property) = None)
            => result = Ok(None)
    /\ call.op = "decode_all"
            => LET els == call.input.a
               IN  /\ result.ok <=> \A k \in 1..Len(els) : FromJson(Named("PropertyValue"), els[k]).ok
                   /\ result.ok
                        => /\ Len(result.v) = Len(els)
                           /\ \A k \in 1..Len(els) :
                                /\ result.v[k] = FromJson(Named("PropertyValue"), els[k]).v
                                /\ els[k] \in PhoneNumberObjects
                                /\ result.v[k] = PhoneNumberOf(els[k])
                   /\ (\A k \in 1..Len(els) : els[k] \in PhoneNumberObjects) => result.ok

\* a list mixing a null and a string payload, decoded
C23_Witness ==
    /\ call.op = "decode_all" /\ result.ok /\ Len(result.v) = 2
    /\ result.v[1].fields.phone_number = None
    /\ result.v[2].fields.phone_number = Some("a")

\* a select property with a null payload, decoded
NullSelectDecoded ==
    /\ call.op = "decode" /\ NullPayloadInput /\ InputTag = "select"
    /\ result.ok /\ property.fields.select = None

\* a null phone number narrowed to Ok(None)
NullPhoneNumberNarrowed ==
    /\ call.op = "expect" /\ call.target = "PhoneNumber"
    /\ property = [variant |-> "PhoneNumber", fields |-> [id |-> "p1", phone_number |-> None]]
    /\ result = Ok(None)

\* the formula result variant each nested type string selects
FormulaVariant ==
    [tag \in {"string", "number", "boolean", "date"} |->
        CASE tag = "string" -> "String"
          [] tag = "number" -> "Number"
          [] tag = "boolean" -> "Boolean"
          [] tag = "date" -> "Date"]
FormulaPayload ==
    [tag \in {"string", "number", "boolean", "date"} |->
        CASE tag = "string" -> Opt(String)
          [] tag = "number" -> Opt(Number)
          [] tag = "boolean" -> Opt(Bool)
          [] tag = "date" -> Opt(Named("DateValue"))]

\* f, an object with a nested type among the four and the payload key of
\* that type, decodes to the variant of the type holding the payload
ByNestedTag(f) ==
    LET decoded == FromJson(Named("FormulaResultValue"), f)
        tag == IF HasKey(f, "type") /\ f.o["type"].t = "str" THEN f.o["type"].s ELSE ""
    IN  /\ (tag \in DOMAIN FormulaVariant /\ HasKey(f, tag))
            => LET payload == FromJson(FormulaPayload[tag], f.o[tag])
               IN  IF payload.ok
                   THEN decoded = Ok([variant |-> FormulaVariant[tag],
                                      fields |-> (tag :> payload.v)])
                   ELSE ~decoded.ok
        /\ \A n \in Numbers :
              f = JObj([type |-> JStr("number"), number |-> JNum(n)])
                 => decoded = Ok([variant |-> "Number", fields |-> [number |-> Some(n)]])
        /\ decoded.ok => tag \in DOMAIN FormulaVariant

\* C24: a formula result is decoded by its own nested type tag:
\* {"type":"number","number":n} decodes to FormulaResultValue::Number with
\* number n, and string, boolean and date select String, Boolean and Date; a
\* Formula PropertyValue carries exactly the FormulaResultValue decoded from
\* its formula key and expect_formula() returns it.
C24_FormulaByNestedTag ==
    /\ (/\ call.op = "decode" /\ InputTag = "formula"
         /\ HasKey(call.input, "id") /\ call.input.o["id"].t = "str"
         /\ HasKey(call.input, "formula") /\ call.input.o["formula"].t = "obj")
            => LET f == call.input.o["formula"]
                   decoded == FromJson(Named("FormulaResultValue"), f)
               IN  /\ ByNestedTag(f)
                   /\ result.ok <=> decoded.ok
                   /\ result.ok
                        => /\ result.v.variant = "Formula"
                           /\ result.v.fields.formula = decoded.v
                           /\ expect_formula(result.v) = Ok(decoded.v)
    /\ (call.op = "expect" /\ call.target = "Formula" /\ property.variant = "Formula")
            => result = Ok(property.fields.formula)

\* the number formula of parse_number_formula inside a formula property
C24_Witness ==
    /\ call.op = "decode"
    /\ call.input = FormulaObject(JObj([type |-> JStr("number"), number |-> JNum(0)]))
    /\ result.ok
    /\ property.fields.formula = [variant |-> "Number", fields |-> [number |-> Some(0)]]

(***************************************************************************)
(* The codec on every type that is read or written on its own.  The        *)
(* caller holds a value of the type call.target, or a JSON text to be      *)
(* decoded as that type.                                                   *)
(***************************************************************************)
\* the internally tagged enums
Enums ==
    {"PropertyValue", "PropertyConfiguration", "RollupPropertyValue", "RollupValue",
     "FormulaResultValue", "FileReference"}
CodecTypes == Enums \cup {"SelectedValue", "DateOrDateTime"}

DateOrDateTimes ==
    {[variant |-> "Date", v |-> d] : d \in Dates}
    \cup {[variant |-> "DateTime", v |-> t] : t \in Times}
\* texts that are neither a calendar date nor a full timestamp
DateTexts ==
    {JStr("2021-01-02T00:00"), JStr("2021-13-02"), JStr("2021-01-02 00:00:00Z"), JStr(""),
     JNull, JNum(20210102)}

ValuesOf(T) ==
    CASE T = "PropertyValue" -> PropertyValues
      [] T = "PropertyConfiguration" -> PropertyConfigurations
      [] T = "RollupPropertyValue" -> RollupPropertyValues
      [] T = "RollupValue" -> RollupValues
      [] T = "FormulaResultValue" -> FormulaResultValues
      [] T = "FileReference" -> FileReferences
      [] T = "SelectedValue" -> SelectedValues
      [] T = "DateOrDateTime" -> DateOrDateTimes

\* type strings put in place of the written one
CodecTags == OtherTags \cup {"last_edited_by", "array", "string", "file"}
\* the objects next to a well-formed one: a key dropped, the type replaced, a
\* key added
MalformedOf(j) ==
    {JObj(Without(j.o, k)) : k \in DOMAIN j.o}
    \cup {JObj(Without(Without(j.o, k), l)) : k, l \in DOMAIN j.o}
    \cup (IF "type" \in DOMAIN j.o
          THEN {JObj([j.o EXCEPT !["type"] = JStr(tag)]) : tag \in CodecTags}
          ELSE {})
    \cup {JObj(j.o @@ ("extra" :> JNull))}
WellFormedOf(T) == {ToJson(Named(T), v) : v \in ValuesOf(T)}
\* the objects of PropertyValue without their id: the items of a rollup array
ItemObjects == {JObj(Without(j.o, "id")) : j \in WellFormedOf("PropertyValue")}
WireInputsOf(T) ==
    WellFormedOf(T)
    \cup UNION {MalformedOf(j) : j \in {w \in WellFormedOf(T) : w.t = "obj"}}
    \cup (IF T = "DateOrDateTime" THEN DateTexts ELSE {})
    \cup (IF T = "RollupPropertyValue" THEN ItemObjects ELSE {})

CodecInit ==
    /\ \E T \in CodecTypes :
          /\ call = Call("new", T, NoWire, NoValue)
          /\ \/ property \in ValuesOf(T) /\ wire = NoWire
             \/ property = NoValue /\ wire \in WireInputsOf(T)
    /\ origin = NoValue
    /\ result = NoResult
    /\ threads = NoThreads
    /\ request = NoRequest

\* serde_json::to_value(&property) for a value of the type call.target
EncodeAs ==
    /\ property # NoValue /\ wire = NoWire
    /\ wire' = ToJson(Named(call.target), property)
    /\ origin' = property
    /\ result' = Ok(Unit)
    /\ call' = Call("encode", call.target, NoWire, NoValue)
    /\ UNCHANGED <<property, threads, request>>

\* serde_json::from_value::<T>(wire) for T the type call.target
DecodeAs ==
    /\ wire # NoWire
    /\ LET r == FromJson(Named(call.target), wire)
       IN  /\ result' = r
           /\ property' = IF r.ok THEN r.v ELSE property
    /\ call' = Call("decode", call.target, wire, origin)
    /\ wire' = NoWire
    /\ origin' = NoValue
    /\ UNCHANGED <<threads, request>>

\* property.id() on a PropertyValue or a PropertyConfiguration
IdOf ==
    /\ call.target \in {"PropertyValue", "PropertyConfiguration"}
    /\ property # NoValue /\ wire = NoWire
    /\ result' = Ok(IF call.target = "PropertyValue" THEN id(property)
                    ELSE PropertyConfiguration_id(property))
    /\ call' = Call("id", call.target, NoWire, NoValue)
    /\ UNCHANGED <<property, wire, origin, threads, request>>

CodecNext == EncodeAs \/ DecodeAs \/ IdOf

CodecSpec == CodecInit /\ [][CodecNext]_vars

\* the wire tags of each enum
WireTags ==
    [T \in Enums |->
        {VariantTag(TypeDef(T), TypeDef(T).variants[i]) : i \in 1..Len(TypeDef(T).variants)}]

\* C11: decoding a JSON object whose type string is not one of the wire tags
\* of the enum it is decoded as (PropertyValue, PropertyConfiguration,
\* RollupPropertyValue, RollupValue, FormulaResultValue, FileReference) returns
\* a decode error; no default or fallback variant is produced.
C11_UnknownTagIsDecodeError ==
    (/\ call.op = "decode" /\ call.target \in Enums
     /\ HasKey(call.input, "type") /\ call.input.o["type"].t = "str"
     /\ InputTag \notin WireTags[call.target])
        => /\ ~result.ok
           /\ "v" \notin DOMAIN result
           /\ property = NoValue

C11_Witness ==
    /\ call.op = "decode" /\ call.target = "PropertyConfiguration"
    /\ InputTag = "unknown" /\ "id" \in DOMAIN call.input.o
    /\ ~result.ok

\* a SelectedValue object whose id and name are each a string or left out
IdAndNameWellFormed(j) ==
    /\ j.t = "obj"
    /\ DOMAIN j.o \subseteq {"id", "name", "color"}
    /\ \A k \in {"id", "name"} \cap DOMAIN j.o : j.o[k].t = "str"
ColorWellFormed(j) ==
    "color" \in DOMAIN j.o /\ FromJson(Named("Color"), j.o["color"]).ok

C14_ColorIsOptional ==
    (/\ call.op = "decode" /\ call.target = "SelectedValue"
     /\ IdAndNameWellFormed(call.input) /\ "color" \notin DOMAIN call.input.o)
        => result.ok

\* C17: id() is uniform over all 21 variants: on every PropertyConfiguration
\* and every PropertyValue, id() returns exactly the PropertyId stored in the
\* value, whatever the variant and its payload or metadata.
C17_IdIsStoredId ==
    call.op = "id"
        => /\ result = Ok(property.fields.id)
           /\ result.v \in PropertyIds
           /\ \A other \in ValuesOf(call.target) :
                  other.fields.id = property.fields.id
                      => (IF call.target = "PropertyValue" THEN id(other)
                          ELSE PropertyConfiguration_id(other)) = result.v

C17_Witness ==
    /\ call.op = "id" /\ call.target = "PropertyConfiguration"
    /\ property.variant = "Button" /\ result = Ok("p2")

(***************************************************************************)
(* Threads sharing one PropertyValue by reference.  Each thread makes      *)
(* narrowing calls on the shared value: a call reads the value through     *)
(* &self (expect_value clones it, an expect_<X> shortcut matches on it     *)
(* first), then works on what it read.  threads[t] is the position of      *)
(* thread t in its call, the copy it took and the result it got.           *)
(***************************************************************************)
Threads == 1..NumThreads

\* the values shared
SharedValues ==
    {[variant |-> "Title", fields |-> [id |-> "p1", title |-> <<[plain_text |-> "hello "], [plain_text |-> "world"]>>]],
     [variant |-> "Text", fields |-> [id |-> "p1", rich_text |-> <<[plain_text |-> "hello "], [plain_text |-> "world"]>>]],
     [variant |-> "Url", fields |-> [id |-> "p2", url |-> Some("a")]],
     [variant |-> "Checkbox", fields |-> [id |-> "p1", checkbox |-> TRUE]],
     [variant |-> "Button", fields |-> [id |-> "p2"]]}

\* the calls a thread makes
ThreadCalls ==
    {[op |-> "expect_value", target |-> T] : T \in {"Vec<RichText>", "Option<String>", "TextValue"}}
    \cup {[op |-> "expect", target |-> X] : X \in {"Title", "Checkbox"}}
    \cup {[op |-> "id", target |-> ""], [op |-> "type_name", target |-> ""]}

Idle == [pc |-> "idle", op |-> "", target |-> "", copy |-> NoValue, result |-> NoResult]

ThreadsInit ==
    /\ property \in SharedValues
    /\ threads = [t \in Threads |-> Idle]
    /\ wire = NoWire
    /\ origin = NoValue
    /\ call = Call("new", "", NoWire, NoValue)
    /\ result = NoResult
    /\ request = NoRequest

\* thread t enters a call on the shared value
Invoke(t, c) ==
    /\ threads[t].pc = "idle"
    /\ threads' = [threads EXCEPT ![t] = [Idle EXCEPT !.pc = "called", !.op = c.op,
                                                     !.target = c.target]]
    /\ UNCHANGED <<property, wire, origin, call, result, request>>

\* the read that moves the shared value out instead of cloning it
Read_Takes(t) ==
    /\ threads[t].pc = "called"
    /\ threads' = [threads EXCEPT ![t].pc = "cloned", ![t].copy = property]
    /\ property' = NoValue
    /\ UNCHANGED <<wire, origin, call, result, request>>

\* thread t reads the shared value through &self: id() and type_name() return
\* from it, expect_<X> returns the error when the variant is not X, and
\* otherwise the value is cloned for from_property_value
Read(t) ==
    /\ threads[t].pc = "called"
    /\ LET th == threads[t]
       IN  threads' =
             [threads EXCEPT ![t] =
                 CASE th.op = "id" -> [th EXCEPT !.pc = "done", !.result = Ok(id(property))]
                   [] th.op = "type_name" ->
                         [th EXCEPT !.pc = "done", !.result = Ok(type_name(property))]
                   [] th.op = "expect" /\ property.variant # th.target ->
                         [th EXCEPT !.pc = "done",
                                    !.result = WrongPropertyTypeError(<<th.target>>,
                                                                      type_name(property))]
                   [] OTHER -> [th EXCEPT !.pc = "cloned", !.copy = property]]
    /\ UNCHANGED <<property, wire, origin, call, result, request>>

\* thread t runs from_property_value on its clone
Finish(t) ==
    /\ threads[t].pc = "cloned"
    /\ LET th == threads[t]
       IN  threads' =
             [threads EXCEPT ![t] =
                 [th EXCEPT !.pc = "done",
                            !.result = IF th.op = "expect" THEN expect(th.target, th.copy)
                                       ELSE expect_value(th.target, th.copy)]]
    /\ UNCHANGED <<property, wire, origin, call, result, request>>

\* thread t takes its result and is free for its next call
Return(t) ==
    /\ threads[t].pc = "done"
    /\ threads' = [threads EXCEPT ![t] = Idle]
    /\ UNCHANGED <<property, wire, origin, call, result, request>>

ThreadsNext ==
    \E t \in Threads :
        \/ \E c \in ThreadCalls : Invoke(t, c)
        \/ Read(t)
        \/ Finish(t)
        \/ Return(t)

ThreadsSpec == ThreadsInit /\ [][ThreadsNext]_vars

\* what a call returns when it runs alone on v
Alone(c, v) ==
    CASE c.op = "expect_value" -> expect_value(c.target, v)
      [] c.op = "expect" -> expect(c.target, v)
      [] c.op = "id" -> Ok(id(v))
      [] c.op = "type_name" -> Ok(type_name(v))

\* every thread has read the shared value as it is and got the result of its
\* call running alone
EachAsAlone ==
    \A t \in Threads :
        /\ threads[t].pc = "cloned" => threads[t].copy = property
        /\ threads[t].pc = "done" => threads[t].result = Alone(threads[t], property)

\* C20: threads that call narrowing operations at the same time on one shared
\* PropertyValue each get the result they would get running alone, under
\* every interleaving, and the shared value is never changed.
C20_ThreadsNarrowAsAlone ==
    []EachAsAlone /\ [][property' = property]_vars

C20_Witness ==
    /\ property.variant = "Text"
    /\ threads[1].pc = "done" /\ threads[1].op = "expect_value"
    /\ threads[1].target = "TextValue" /\ threads[1].result = Ok(TextValue("hello world"))
    /\ threads[2].pc = "cloned" /\ threads[2].op = "expect_value"
    /\ threads[2].target = "Vec<RichText>"

\* C22: DateOrDateTime round-trips with its variant preserved: encoding
\* Date(d) and decoding the result yields Date(d), encoding DateTime(t) and
\* decoding the result yields DateTime(t); no encoded timestamp is decoded as
\* a Date and no encoded calendar date as a DateTime.
C22_DateOrDateTimeRoundTrip ==
    (call.op = "decode" /\ call.target = "DateOrDateTime")
        => /\ call.from # NoValue => result = Ok(call.from)
           /\ \A t \in Times :
                call.input = JStr(FormatDateTime(t))
                    => result = Ok([variant |-> "DateTime", v |-> t])
           /\ \A d \in Dates :
                call.input = JStr(FormatNaiveDate(d))
                    => result = Ok([variant |-> "Date", v |-> d])

\* a timestamp at midnight written and read back as the same timestamp
C22_Witness ==
    /\ call.op = "decode" /\ call.target = "DateOrDateTime"
    /\ call.from.variant = "DateTime" /\ call.from.v.hour = 0
    /\ call.input = JStr("2021-01-02T00:00:00Z")
    /\ result = Ok(call.from)

\* the property kind a configuration variant describes: the PropertyValue
\* variant documented for the same property
KindOf ==
    [n \in {TypeDef("PropertyConfiguration").variants[i].name :
                i \in 1..Len(TypeDef("PropertyConfiguration").variants)} |->
        IF n = "LastEditBy" THEN "LastEditedBy" ELSE n]
\* the wire tag of each PropertyValue variant
ValueTagOf ==
    [n \in VariantNames |-> PropertyValueTags[VariantIndex[n]]]

\* C25: PropertyConfiguration and PropertyValue mirror each other on the
\* wire: for each of the 21 property kinds the wire tag of the
\* PropertyConfiguration variant equals the tag of the PropertyValue variant of
\* that kind, so a configuration object with type last_edited_by decodes to
\* the last-edited-by configuration variant just as a value with type
\* last_edited_by decodes to PropertyValue::LastEditedBy.
C25_ConfigurationMirrorsValue ==
    /\ (call.op = "decode" /\ call.target = "PropertyConfiguration")
            => /\ (result.ok /\ call.input.t = "obj")
                    => ValueTagOf[KindOf[result.v.variant]] = InputTag
               /\ (/\ InputTag = "last_edited_by"
                    /\ HasKey(call.input, "id") /\ call.input.o["id"].t = "str")
                    => result.ok /\ result.v.variant = "LastEditBy"
    /\ (call.op = "decode" /\ call.target = "PropertyValue" /\ result.ok
            /\ InputTag = "last_edited_by")
            => result.v.variant = "LastEditedBy"

\* the same for the 20 kinds other than last-edited-by
ConfigurationMirrorsValueButLastEditedBy ==
    (call.op = "decode" /\ call.target = "PropertyConfiguration"
        /\ result.ok /\ call.input.t = "obj" /\ result.v.variant # "LastEditBy")
        => ValueTagOf[KindOf[result.v.variant]] = InputTag

\* the wire tags of the variants that PropertyValue and RollupPropertyValue
\* both have
CommonTags == WireTags["PropertyValue"] \cap WireTags["RollupPropertyValue"]

\* the input, an object without id, decodes as a RollupPropertyValue to the
\* variant and payload it decodes to as a PropertyValue once given an id
\* (the phone number of an item is a String, that of a value an Option)
SamePayload(item, value) ==
    IF item.variant = "PhoneNumber"
    THEN Some(item.fields.phone_number) = value.fields.phone_number
    ELSE item.fields = Without(value.fields, "id")
ItemAsValue ==
    LET withId == FromJson(Named("PropertyValue"), JObj(call.input.o @@ ("id" :> JStr("p1"))))
    IN  withId.ok
            => /\ result.ok
               /\ result.v.variant = withId.v.variant
               /\ SamePayload(result.v, withId.v)
RollupItemInput ==
    /\ call.op = "decode" /\ call.target = "RollupPropertyValue"
    /\ call.input.t = "obj" /\ "id" \notin DOMAIN call.input.o
    /\ InputTag \in CommonTags

\* C26: RollupPropertyValue is PropertyValue's per-item shape without the id:
\* for every variant name present in both enums, a payload that decodes as the
\* PropertyValue variant (with an id) also decodes as the RollupPropertyValue
\* variant of the same tag (without the id) to the same payload, a null
\* payload for the optional-payload variants such as phone_number included.
C26_RollupItemMirrorsValue == RollupItemInput => ItemAsValue

\* the same for the variants other than phone_number
RollupItemMirrorsValueButPhoneNumber ==
    (RollupItemInput /\ InputTag # "phone_number") => ItemAsValue
\* a phone number that is a string is read alike by both
RollupItemPhoneNumberText ==
    (/\ RollupItemInput /\ InputTag = "phone_number"
     /\ HasKey(call.input, "phone_number") /\ call.input.o["phone_number"].t = "str")
        => ItemAsValue /\ result.ok

(***************************************************************************)
(* The client.  One operation of NotionApi is in progress at a time; it    *)
(* builds its request, sends it, reads the body of the response, parses it *)
(* and, in make_json_request, looks at the envelope.  request.response is  *)
(* what the server answers, in request.response.chunks pieces, of which    *)
(* request.received have arrived; request.json is the text handed to the   *)
(* parser; request.log lists the stages that ran and request.failed the    *)
(* stage that failed.                                                      *)
(***************************************************************************)
MaxChunks == 2

\* crate::Error
RequestFailed == [ok |-> FALSE, error |-> "RequestFailed"]
ResponseIoError == [ok |-> FALSE, error |-> "ResponseIoError"]
JsonParseError(source) == [ok |-> FALSE, error |-> "JsonParseError", source |-> source]
UnexpectedResponse(response) ==
    [ok |-> FALSE, error |-> "UnexpectedResponse", response |-> response]
ApiError(error) == [ok |-> FALSE, error |-> "ApiError", api |-> error]

Operations ==
    {"search", "get_database", "get_page", "create_page", "query_database",
     "get_block_children", "get_comments", "get_user"}

\* the request function each operation goes through and the type it parses
RequestFunction(op) ==
    CASE op = "get_user" -> "make_json_request_user"
      [] op = "get_comments" -> "make_json_request_comments"
      [] OTHER -> "make_json_request"
ParsedType(fn) ==
    CASE fn = "make_json_request_user" -> Named("User")
      [] fn = "make_json_request_comments" -> Named("ListResponse<Comment>")
      [] OTHER -> Named("Object")

\* a text of which upto of its pieces are there
Text(body, upto, of) == [body |-> body, upto |-> upto, of |-> of]
NotJson == [t |-> "not json"]
\* serde_json::from_str::<T>(&json)
from_str(T, json) ==
    IF json.upto < json.of THEN DecodeError("EOF while parsing")
    ELSE IF json.body = NotJson THEN DecodeError("expected value")
    ELSE FromJson(T, json.body)

\* make_json_request's match on the parsed response, passing an error
\* envelope on as a response
EnvelopeCheck_PassesError(response) == Ok(response)

\* make_json_request's match on the parsed response
EnvelopeCheck(response) ==
    IF response.variant = "Error" THEN ApiError(response.fields.error)
    ELSE Ok(response)

\* ListResponse<Object>::expect_pages and expect_blocks: every result is of
\* the kind, or the first that is not is the unexpected response
ExpectKind(list, kind, field) ==
    LET others == {i \in 1..Len(list.results) : list.results[i].variant # kind}
    IN  IF others = {}
        THEN Ok([list EXCEPT !.results =
                    [i \in 1..Len(list.results) |-> list.results[i].fields[field]]])
        ELSE UnexpectedResponse(list.results[CHOOSE i \in others : \A j \in others : i <= j])
expect_pages(list) == ExpectKind(list, "Page", "page")
expect_blocks(list) == ExpectKind(list, "Block", "block")

\* each operation on what its request function returned
search(r) ==
    IF ~r.ok THEN r
    ELSE IF r.v.variant = "List" THEN Ok(r.v.fields.list) ELSE UnexpectedResponse(r.v)
get_database(r) ==
    IF ~r.ok THEN r
    ELSE IF r.v.variant = "Database" THEN Ok(r.v.fields.database) ELSE UnexpectedResponse(r.v)
\* get_page taking whatever the envelope wraps
get_page_AnyEnvelope(r) ==
    IF ~r.ok THEN r
    ELSE IF r.v.variant = "Page" THEN Ok(r.v.fields.page)
    ELSE IF r.v.variant = "Database" THEN Ok(r.v.fields.database)
    ELSE UnexpectedResponse(r.v)

get_page(r) ==
    IF ~r.ok THEN r
    ELSE IF r.v.variant = "Page" THEN Ok(r.v.fields.page) ELSE UnexpectedResponse(r.v)
create_page(r) ==
    IF ~r.ok THEN r
    ELSE IF r.v.variant = "Page" THEN Ok(r.v.fields.page) ELSE UnexpectedResponse(r.v)
query_database(r) ==
    IF ~r.ok THEN r
    ELSE IF r.v.variant = "List" THEN expect_pages(r.v.fields.list)
    ELSE UnexpectedResponse(r.v)
get_block_children(r) ==
    IF ~r.ok THEN r
    ELSE IF r.v.variant = "List" THEN expect_blocks(r.v.fields.list)
    ELSE UnexpectedResponse(r.v)
get_comments(r) == r
get_user(r) == r

OperationResult(op, r) ==
    CASE op = "search" -> search(r)
      [] op = "get_database" -> get_database(r)
      [] op = "get_page" -> get_page(r)
      [] op = "create_page" -> create_page(r)
      [] op = "query_database" -> query_database(r)
      [] op = "get_block_children" -> get_block_children(r)
      [] op = "get_comments" -> get_comments(r)
      [] op = "get_user" -> get_user(r)

\* what the server may answer
ErrorResponses ==
    {[status |-> 404, code |-> "object_not_found", message |-> "a"],
     [status |-> 429, code |-> "rate_limited", message |-> "b"]}
DatabaseObject == [variant |-> "Database", fields |-> [database |-> [id |-> "db1"]]]
PageObject == [variant |-> "Page", fields |-> [page |-> [id |-> "page1"]]]
BlockObject == [variant |-> "Block", fields |-> [block |-> [id |-> "block1"]]]
ListObject(results) ==
    [variant |-> "List",
     fields |-> [list |-> [results |-> results, next_cursor |-> None, has_more |-> FALSE]]]
ErrorObject(e) == [variant |-> "Error", fields |-> [error |-> e]]
Objects ==
    {DatabaseObject, PageObject, BlockObject}
    \cup {ListObject(l) : l \in BoundedSeq({DatabaseObject, PageObject, BlockObject}, MaxLen)}
    \cup {ErrorObject(e) : e \in ErrorResponses}
Comments ==
    {[variant |-> "Comment",
      fields |-> [common |-> [id |-> "c1", rich_text |-> <<[plain_text |-> "hello "]>>,
                              created_time |-> t, last_edited_time |-> t,
                              parent |-> [type |-> "page_id"], created_by |-> u,
                              discussion_id |-> "d1"]]] :
        t \in {CHOOSE x \in Times : x.hour = 0}, u \in {CHOOSE x \in Users : x.variant = "Person"}}
CommentLists ==
    {[results |-> l, next_cursor |-> None, has_more |-> FALSE] : l \in BoundedSeq(Comments, 1)}
ResponseBodies ==
    {ToJson(Named("Object"), o) : o \in Objects}
    \cup {ToJson(Named("User"), u) : u \in Users}
    \cup {JObj(ToJson(Named("ListResponse<Comment>"), l).o @@ ("object" :> JStr("list"))) :
                l \in CommentLists}
    \cup {NotJson, JObj(EmptyMap), JObj([object |-> JStr("unknown")])}
Responses == {[body |-> b, chunks |-> n] : b \in ResponseBodies, n \in 1..MaxChunks}
NoResponse == [chunks |-> 0]

NewRequest(op) ==
    [pc |-> "start", fn |-> RequestFunction(op), sent |-> 0, response |-> NoResponse,
     received |-> 0, json |-> NoWire, parsed |-> NoValue, inner |-> NoResult,
     log |-> <<>>, failed |-> ""]
IdleRequest == [NewRequest("search") EXCEPT !.pc = "idle"]

ClientInit ==
    /\ request = IdleRequest
    /\ call = Call("new", "", NoWire, NoValue)
    /\ result = NoResult
    /\ property = NoValue /\ wire = NoWire /\ origin = NoValue /\ threads = NoThreads

\* the caller awaits one of the operations
Start(op) ==
    /\ request.pc \in {"idle", "done"}
    /\ request' = NewRequest(op)
    /\ call' = Call(op, "", NoWire, NoValue)
    /\ result' = NoResult
    /\ UNCHANGED <<property, wire, origin, threads>>

\* request.build()?: an error is converted to RequestFailed
Build ==
    /\ request.pc = "start"
    /\ \/ request' = [request EXCEPT !.pc = "built"]
       \/ request' = [request EXCEPT !.pc = "returned", !.inner = RequestFailed,
                                     !.failed = "build"]
    /\ UNCHANGED <<property, wire, origin, call, result, threads>>

\* self.client.execute(request).await
Send ==
    /\ request.pc = "built"
    /\ \/ \E r \in Responses :
             request' = [request EXCEPT !.pc = "reading", !.sent = @ + 1, !.response = r,
                                         !.log = Append(@, "send")]
       \/ request' = [request EXCEPT !.pc = "returned", !.sent = @ + 1,
                                     !.inner = RequestFailed,
                                     !.log = Append(@, "send"), !.failed = "send"]
    /\ UNCHANGED <<property, wire, origin, call, result, threads>>

\* a piece of the body arrives while text() is awaited
ReadChunk ==
    /\ request.pc = "reading" /\ request.received < request.response.chunks
    /\ request' = [request EXCEPT !.received = @ + 1]
    /\ UNCHANGED <<property, wire, origin, call, result, threads>>

\* the connection breaks before the body is complete
ReadFail ==
    /\ request.pc = "reading" /\ request.received < request.response.chunks
    /\ request' = [request EXCEPT !.pc = "returned", !.inner = ResponseIoError,
                                  !.log = Append(@, "read"), !.failed = "read"]
    /\ UNCHANGED <<property, wire, origin, call, result, threads>>

\* text() returning with whatever has arrived
ReadDone_Partial ==
    /\ request.pc = "reading" /\ request.received >= 1
    /\ request' = [request EXCEPT !.pc = "read",
                                  !.json = Text(request.response.body, request.received,
                                                request.response.chunks),
                                  !.log = Append(@, "read")]
    /\ UNCHANGED <<property, wire, origin, call, result, threads>>

\* text() returns the whole body
ReadDone ==
    /\ request.pc = "reading" /\ request.received = request.response.chunks
    /\ request' = [request EXCEPT !.pc = "read",
                                  !.json = Text(request.response.body, request.received,
                                                request.response.chunks),
                                  !.log = Append(@, "read")]
    /\ UNCHANGED <<property, wire, origin, call, result, threads>>

\* serde_json::from_str(&json): make_json_request goes on to the envelope,
\* the user and comments variants return what they parsed
Parse ==
    /\ request.pc = "read"
    /\ LET r == from_str(ParsedType(request.fn), request.json)
       IN  request' =
             IF ~r.ok
             THEN [request EXCEPT !.pc = "returned", !.inner = JsonParseError(r.error),
                                  !.log = Append(@, "parse"), !.failed = "parse"]
             ELSE IF request.fn = "make_json_request"
             THEN [request EXCEPT !.pc = "parsed", !.parsed = r.v, !.log = Append(@, "parse")]
             ELSE [request EXCEPT !.pc = "returned", !.parsed = r.v, !.inner = Ok(r.v),
                                  !.log = Append(@, "parse")]
    /\ UNCHANGED <<property, wire, origin, call, result, threads>>

\* match result { Object::Error { error } => Err(..), response => Ok(response) }
Check ==
    /\ request.pc = "parsed"
    /\ request' = [request EXCEPT !.pc = "returned", !.inner = EnvelopeCheck(request.parsed),
                                  !.log = Append(@, "check")]
    /\ UNCHANGED <<property, wire, origin, call, result, threads>>

\* the operation takes what its request function returned
Complete ==
    /\ request.pc = "returned"
    /\ result' = OperationResult(call.op, request.inner)
    /\ request' = [request EXCEPT !.pc = "done"]
    /\ UNCHANGED <<property, wire, origin, call, threads>>

ClientNext ==
    \/ \E op \in Operations : Start(op)
    \/ Build
    \/ Send
    \/ ReadChunk
    \/ ReadFail
    \/ ReadDone
    \/ Parse
    \/ Check
    \/ Complete

ClientSpec == ClientInit /\ [][ClientNext]_vars

\* the body of an API error as the server writes it
ErrorBody(e) == ToJson(Named("Object"), ErrorObject(e))
\* the request function has returned
Returned == request.pc \in {"returned", "done"}

\* C27: make_json_request never returns Ok holding an error envelope: when
\* the parsed response is Object::Error the result is Err(Error::ApiError)
\* carrying that error, and every other parsed Object is returned as Ok
\* unchanged.
C27_ErrorEnvelopeIsApiError ==
    (request.fn = "make_json_request" /\ Returned)
        => /\ request.inner.ok => request.inner.v.variant # "Error"
           /\ request.parsed # NoValue
                => IF request.parsed.variant = "Error"
                   THEN request.inner = ApiError(request.parsed.fields.error)
                   ELSE request.inner = Ok(request.parsed)
           /\ \A e \in ErrorResponses :
                (request.response.chunks > 0 /\ request.response.body = ErrorBody(e)
                    /\ request.parsed # NoValue)
                    => request.inner = ApiError(e)

C27_Witness ==
    /\ request.fn = "make_json_request" /\ request.pc = "returned"
    /\ request.parsed.variant = "Error"
    /\ request.inner = ApiError([status |-> 404, code |-> "object_not_found", message |-> "a"])

\* the operation is over and the body it read is an API error object
ApiErrorBodyRead(e) ==
    /\ request.pc = "done"
    /\ request.json # NoWire
    /\ request.json.body = ErrorBody(e)

\* C28: every public client operation (search, get_database, get_page,
\* create_page, query_database, get_block_children, get_comments, get_user)
\* surfaces a response body that is an API error object as
\* Err(Error::ApiError); none reports it as a JSON parse error or as a
\* successful result.
C28_EveryOperationSurfacesApiError ==
    \A e \in ErrorResponses :
        ApiErrorBodyRead(e)
            => /\ result = ApiError(e)
               /\ ~result.ok
               /\ result.error # "JsonParseError"

\* the same for the operations that go through make_json_request
ApiErrorSurfacesThroughMakeJsonRequest ==
    \A e \in ErrorResponses :
        (ApiErrorBodyRead(e) /\ call.op \notin {"get_user", "get_comments"})
            => result = ApiError(e)
\* get_user and get_comments report the API error body as a parse error
ApiErrorIsParseErrorForUserAndComments ==
    \A e \in ErrorResponses :
        (ApiErrorBodyRead(e) /\ call.op \in {"get_user", "get_comments"})
            => ~result.ok /\ result.error = "JsonParseError"

\* the envelope kind each typed getter names
ExpectedKind ==
    [op \in Operations \ {"get_user", "get_comments"} |->
        CASE op = "get_database" -> "Database"
          [] op \in {"get_page", "create_page"} -> "Page"
          [] op \in {"search", "query_database", "get_block_children"} -> "List"]

\* C29: each typed client getter returns Ok only for the envelope kind it
\* names: get_database only for Object::Database, get_page and create_page
\* only for Object::Page, search, query_database and get_block_children only
\* for Object::List; any other non-error envelope yields
\* Err(Error::UnexpectedResponse) carrying that response object.
C29_OkOnlyForNamedEnvelope ==
    (request.pc = "done" /\ call.op \in DOMAIN ExpectedKind)
        => /\ result.ok => request.parsed.variant = ExpectedKind[call.op]
           /\ (request.parsed # NoValue
                    /\ request.parsed.variant \notin {"Error", ExpectedKind[call.op]})
                => result = UnexpectedResponse(request.parsed)
           /\ (request.parsed.variant = ExpectedKind[call.op]
                    /\ call.op \in {"get_database", "get_page", "create_page", "search"})
                => result.ok

C29_Witness ==
    /\ request.pc = "done" /\ call.op = "get_page"
    /\ request.parsed = DatabaseObject
    /\ result = UnexpectedResponse(DatabaseObject)

StageOrder == <<"send", "read", "parse", "check">>
IsPrefix(a, b) == Len(a) <= Len(b) /\ \A i \in 1..Len(a) : a[i] = b[i]
Ran(stage) == \E i \in 1..Len(request.log) : request.log[i] = stage

\* the stages that ran are the first of send, read, parse, envelope check,
\* the parser got the whole body, and each failure is the error of its stage
\* and the last stage that ran
StagesInOrder ==
    /\ IsPrefix(request.log, StageOrder)
    /\ request.sent <= 1 /\ (request.sent = 1 <=> Ran("send"))
    /\ Ran("parse")
            => request.json = Text(request.response.body, request.response.chunks,
                                   request.response.chunks)
    /\ request.failed = "build" => request.inner = RequestFailed /\ request.log = <<>>
    /\ request.failed = "send" => request.inner = RequestFailed /\ request.log = <<"send">>
    /\ request.failed = "read"
            => request.inner = ResponseIoError /\ request.log = <<"send", "read">>
    /\ request.failed = "parse"
            => /\ request.inner.error = "JsonParseError"
               /\ request.log = <<"send", "read", "parse">>
    /\ request.failed # "" => Returned
    /\ (request.pc = "done" /\ request.failed # "") => result = request.inner
\* after a failure nothing more runs in the operation: no stage, no request
NothingAfterFailure ==
    (request.failed # "" /\ request'.pc # "start")
        => request'.log = request.log /\ request'.sent = request.sent

\* C30: in every client request the stages run strictly in the order send,
\* read whole body, parse, envelope check: the decoder is invoked only after
\* the complete response body has been read, a send failure yields
\* RequestFailed, a read failure ResponseIoError and a parse failure
\* JsonParseError, and a failure at one stage means no later stage runs and
\* no second request is sent.
C30_StagesInOrder == []StagesInOrder /\ [][NothingAfterFailure]_vars

C30_Witness ==
    /\ request.pc = "done" /\ request.failed = "read"
    /\ request.response.chunks = 2 /\ request.received = 1
    /\ request.sent = 1
    /\ result = ResponseIoError
====
